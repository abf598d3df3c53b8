\* Two nodes, one process on each; one links and monitors the other.
CONSTANTS
    a = a  b = b  p = p  q = q 
    Node = {a, b}
    Procs = {p, q}
    Home <- MCHome
    Trapping = {q}
    Linkers = {p}
    Starts <- MCStarts
    MaxOps <- MCMaxOps
    MaxConns = 2
    MaxFaults = 1
SPECIFICATION Spec
INVARIANTS RegisteredServed CookiesAgree LinksAgree
PROPERTY DownsArrive
CHECK_DEADLOCK FALSE
