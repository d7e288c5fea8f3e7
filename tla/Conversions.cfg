SPECIFICATION Spec
CONSTANTS
    Alphabet = {"a", "b", "h", "%", "_", "esc"}
    HighChars = {"h"}
    MAX_TABLES_IN_QUERY = 3
    Byte = 4
    Numbers <- SomeNumbers
    Decimals <- SomeDecimals
    Moments <- SomeMoments
    Dates <- SomeDates
    Texts <- SomeTexts
    Bytes <- SomeBytes
    BlobSegment = 2
    MaxName = 4
    MaxPattern = 4
    TextChars = {97, 39, 92, 34, 26, 48, 90}
    Octets = {0, 39, 92, 48}
    MaxText = 3
    MaxBytes = 5
INVARIANTS
    MatchIsLike
    MinusOneIsFinal
    FieldsReadBack
    QuotedReadBack
    ColumnTypesFound
    EncodingTrue
