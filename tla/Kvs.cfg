CONSTANTS
    lead = lead
    mid = mid
    leaf = leaf
    cl = cl
    cl2 = cl2
    cbad = cbad
    cm = cm
    cf = cf
    fl = fl
    ff = ff
    wm = wm
    wf = wf
    lf = lf
    fence = fence
    Nothing = Nothing
    Leader = lead
    Followers = {mid, leaf}
    Parent <- MCParent
    Keys = {"k"}
    Requests <- MCRequests
    Req <- MCReq
    Scenarios <- MCScenarios
    MaxCreates = 1
SPECIFICATION Spec
INVARIANTS RootsAgree ReadYourWrites
PROPERTIES NeverBack Refines Settles
CHECK_DEADLOCK FALSE
