CONSTANTS
    Ctxs = {a, "t"}
    Objs = {o1, o2}
    Regions = {r1, r2}
    Procs = {"server", "tool"}
    Nics = {"server"}
    Owner <- OneTool
    Failing = TRUE
    Crashing = TRUE
    Removing = TRUE
    a = a
    b = b
    o1 = o1
    o2 = o2
    r1 = r1
    r2 = r2
SPECIFICATION MCSpec
INVARIANTS MCRegionOwned MCMappingValid
PROPERTIES MCReleaseClean MCMemoryReturned
CHECK_DEADLOCK FALSE
