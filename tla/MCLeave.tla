------------------------------- MODULE MCLeave -------------------------------
(* Instances of Leave for TLC: one request of one employment, an absence of*)
(* one or two days, in either of two periods or across their seam, against *)
(* one day acquired in the first period and none in the second, in which a *)
(* correction may credit one.                                              *)
EXTENDS Leave

MCOneDay == [t \in Types |-> 1]
MCPresence == Employments \X {0}
MCPeriodOf == [d \in Days |-> d]
MCBothStores == BOOLEAN
=============================================================================
