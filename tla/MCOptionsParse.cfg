CONSTANTS
    Tokens = {"", "-c", "-p", "-r", "-u", "--", "-z", "h"}
    DashTokens = {"-c", "-p", "-r", "-u", "--", "-z"}
    MaxArgs = 4
    DefaultPort = DefaultPort
SPECIFICATION Spec
INVARIANT TypeOK
INVARIANT ArgsAccounted
