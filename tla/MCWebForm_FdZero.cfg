CONSTANTS
    root = root
    p1 = p1
    p2 = p2
    r1 = r1
    u1 = u1
    c1 = c1
    host = host
    null = null
    NPairs = 3
    Paths <- MCPaths
    Root = root
    RelTargets = {r1}
    URIs = {u1}
    Cookies = {c1}
    HostDefault = host
    NULL = null
    Fds = {0, 3}
    MaxRedirects = 2
    ResolvePath <- MCResolvePath

SPECIFICATION Spec


CHECK_DEADLOCK FALSE
INVARIANT NoLeakAtReturn
