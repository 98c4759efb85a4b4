\* A delete renames the release it read after a concurrent publish.
CONSTANTS
    a = a
    b = b
    c1 = c1
    c2 = c2
    Contents <- MCContents
    Clients = {c1, c2}
    MaxVersion = 4
    NoContent = NoContent
    Plain <- MCPlain
SPECIFICATION Spec
PROPERTY VersionNeverDecreases
