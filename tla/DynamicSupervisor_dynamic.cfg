SPECIFICATION Spec
CONSTANTS
    Static <- OneStatic
    Dynamic = {"d"}
    Setups <- SomeSetups
    RestartTypes = {"transient", "temporary"}
    StaticType = "permanent"
    MaxRestarts = 1
    WindowPasses = FALSE
    Clients = {"a", "b"}
    MaxStarts = 6
    None = None
 
PROPERTIES TerminationsHonest 
CHECK_DEADLOCK FALSE
