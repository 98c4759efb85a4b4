\* Publishes and deletes of one client at a time, with store errors: the
\* multi-call handlers implement the atomic release register.
CONSTANTS
    a = a
    b = b
    c1 = c1
    c2 = c2
    Contents <- MCContents
    Clients = {c1}
    MaxVersion = 4
    NoContent = NoContent
    Plain <- MCPlain
SPECIFICATION Spec
INVARIANT TypeOK
PROPERTY ImplementsRegister
