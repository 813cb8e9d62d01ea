-------------------------- MODULE MCOrderLifecycle --------------------------
EXTENDS OrderLifecycle, TLC

\* prepare is weigh without a log; deliver ends an animal as return does.
Most       == AllOps \ {"prepare", "deliver"}
Workflow   == {"slaughter", "batch", "prepare", "deliver", "touch", "cancel", "bill"}
Full       == {"disassembly", "delivery"}

AnySymmetry == Permutations(Animals) \cup Permutations(Workers)
=============================================================================
