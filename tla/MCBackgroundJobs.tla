---------------------------- MODULE MCBackgroundJobs ----------------------------
EXTENDS BackgroundJobs

Ask1(scope, t, steps) == [scope |-> scope, trace |-> t, steps |-> steps]

\* One of each kind.
EveryKind ==
  {Ask1("trace", 1, {"reparse", "scan"}), Ask1("trace", 1, {"repair"}),
   Ask1("session", 0, {"scan"}), Ask1("batch", 0, {"scan"})}
==============================================================================
