SPECIFICATION Spec
CONSTANTS
    colu_f = colu_f
    data_a = data_a
    data_b = data_b
    hash_a = hash_a
    hash_b = hash_b
    integer = integer
    varchar = varchar
    blob = blob
    Columns = {colu_f, data_a, data_b, hash_a, hash_b}
    Order <- ByName
    DataOf <- Data
    Types = {integer, varchar, blob}
    Indexed = {colu_f, hash_a, hash_b}
    Classes <- Versions
    None = None
INVARIANTS
    TypeOK
    TableFollowsClass
    DescriptionHonest
PROPERTIES
    KeptDataSurvives
    ValuesInColumns
