CONSTANTS
    Absent = Absent
    Docs <- MCDocs
    Types = {"grpc_unary", "websocket", "fake_http_start"}
    Texts = {"", "v", "bare", "bad"}
    Scalars = {"null", "1", "t"}
    Numbers = {0, 2}
    Services = {"S", "T"}
    MaxRows = 2
    MaxEdits = 5
SPECIFICATION Spec
INVARIANTS FormShowsStep  ServiceIsListed
CHECK_DEADLOCK FALSE
