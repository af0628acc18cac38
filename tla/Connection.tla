----------------------------- MODULE Connection -----------------------------
(***************************************************************************)
(* One entry of the list `connection' (src/src/model/interconnection.cpp): *)
(* what ParseInterConnection stores for it.                                *)
(***************************************************************************)
EXTENDS Integers

\* String2ConType; the parser asserts that the type is one of these.
ConType == {"HD", "FD", "UC", "BC", "Ring", "Mesh"}

\* A connection within a level is written "Inner" and stored under its type.
TargetOf(target, type) == IF target = "Inner" THEN type ELSE target

\* Bug: levels with as many instances as each other are left out.
FansUnequal(target, source) ==
  [fanout |-> IF target <= source THEN 0 ELSE target \div source,
   fanin |-> IF target >= source THEN 0 ELSE source \div target]

\* fanout_ and fanin_ of a connection between levels with that many instances
\* stay 0 unless assigned.
Fans(target, source) ==
  [fanout |-> IF target < source THEN 0
              ELSE IF target = source THEN 1 ELSE target \div source,
   fanin |-> IF target > source THEN 0
             ELSE IF target = source THEN 1 ELSE source \div target]

\* The quotient divides by the smaller number of instances.
FansDefined(target, source) ==
  /\ target > source => source # 0
  /\ target < source => target # 0

InterConNode(type, bandwidth, target, source) ==
  [type |-> type, bandwidth |-> bandwidth,
   fanout |-> Fans(target, source).fanout,
   fanin |-> Fans(target, source).fanin]
=============================================================================
