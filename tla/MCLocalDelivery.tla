---------------------------- MODULE MCLocalDelivery ----------------------------
EXTENDS LocalDelivery

CONSTANTS b1, r1, r2, c1

MatchesAll == [b \in Bundles |-> Regs]
\* The application binds every registration, and makes and ends the last one.
BindsAll == [c \in Clients |-> Regs]
RegistersSecond == [c \in Clients |-> {r2}]
\* It makes and ends the only registration.
BindsNone == [c \in Clients |-> {}]
RegistersAll == [c \in Clients |-> Regs]
=============================================================================
