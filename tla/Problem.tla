------------------------------ MODULE Problem ------------------------------
(***************************************************************************)
(* ParseWorkloads (src/src/problem/problem.cpp): the dimensions, the       *)
(* operations and the bounds of the problem.  Every operation comes with a *)
(* shape of its own (problem::Shape::Parse of the vendored timeloop) that  *)
(* numbers its dimensions, tensors and coefficients from 0; add_workload   *)
(* translates it, name by name, into the numbers of common_shape_.         *)
(*                                                                         *)
(* Flattened dimensions are the factorized ones: no operation flattens.    *)
(* Densities and default values of coefficients are read by no analysis.   *)
(* std::map goes through the coefficients of an operation in the order of  *)
(* their names: config lists them in that order.                           *)
(***************************************************************************)
EXTENDS Sections

VARIABLES
  tensor,                      \* the tensor of the operation that is next, or 0
  current_shape_,              \* static pointer of problem::Workload
  FactorizedDimensionNameToID, \* common_shape_, as are the next six
  FactorizedDimensionIDToName,
  DataSpaceNameToID,
  DataSpaceOrder,
  Projections,
  CoefficientNameToID,
  CoefficientIDToName,
  workloads_,                  \* operation to its tensors and its entry
  factorized_bounds_           \* id of a dimension to its bound

shapeVars == <<DataSpaceNameToID, DataSpaceOrder, Projections,
               CoefficientNameToID, CoefficientIDToName>>

dimVars == <<FactorizedDimensionNameToID, FactorizedDimensionIDToName>>

problemVars == <<tensor, current_shape_, dimVars, shapeVars, workloads_,
                 factorized_bounds_>>

\* Values of current_shape_ besides the entry of an operation.
CommonShape == 0
EmptyShape == -1

\* (unsigned) -1 for a term without a coefficient.
NoCoefficient == -1

-----------------------------------------------------------------------------
\* The shape of operation op.  An id is a position, from 0; a name that is
\* listed twice has its last one.
Positions(list, name) == {i \in 0 .. Len(list) - 1 : list[i + 1] = name}

IdIn(list, name) == CHOOSE i \in Positions(list, name) :
                      \A j \in Positions(list, name) : j <= i

\* A term of a projection is <<dimension>> or <<dimension, coefficient>>.
Term(op, term) ==
  <<IF Len(term) = 1 THEN Len(op.coefficients) ELSE IdIn(op.coefficients, term[2]),
    IdIn(op.dimensions, term[1])>>

TermDefined(op, term) ==
  /\ term[1] \in ToSet(op.dimensions)
  /\ Len(term) = 2 => term[2] \in ToSet(op.coefficients)

\* A projection: one expression, a sum of terms, per dimension of the tensor.
Projection(op, space) ==
  [e \in DOMAIN space.projection |->
    [t \in DOMAIN space.projection[e] |-> Term(op, space.projection[e][t])]]

WorkloadType == {"MATRIX", "MAC", "VECTOR", "VEC", "BUFFER"}

\* ParseWorkload comes to its end: Shape::Parse finds all names, there is
\* one output, the type is known.
ParseWorkload(op) ==
  /\ \A k \in DOMAIN op.spaces : \A e \in DOMAIN op.spaces[k].projection :
       \A t \in DOMAIN op.spaces[k].projection[e] :
         TermDefined(op, op.spaces[k].projection[e][t])
  /\ Len(op.outs) = 1
  /\ op.type \in WorkloadType

-----------------------------------------------------------------------------
ProblemInit ==
  /\ tensor = 0
  /\ current_shape_ = EmptyShape
  /\ FactorizedDimensionNameToID = <<>>
  /\ FactorizedDimensionIDToName = <<>>
  /\ DataSpaceNameToID = <<>>
  /\ DataSpaceOrder = <<>>
  /\ Projections = <<>>
  /\ CoefficientNameToID = <<>>
  /\ CoefficientIDToName = <<>>
  /\ workloads_ = <<>>
  /\ factorized_bounds_ = <<>>

\* The operations; a problem without that list is an operation itself.
OpsOf(problem) == lookupValue(problem, "ops", <<problem>>)

Ops == OpsOf(config.problem)

\* What has to be a list is one: else the YAML library throws.
ASSUME ProblemAssumption ==
  \A c \in Configs :
    /\ exists(c.problem, "dimensions") => IsList(c.problem.dimensions)
    /\ IsList(OpsOf(c.problem))
    /\ \A i \in DOMAIN OpsOf(c.problem) :
         LET op == OpsOf(c.problem)[i] IN
           /\ IsList(op.dimensions)
           /\ IsList(op.spaces)
           /\ \A k \in DOMAIN op.spaces :
                LET projection == op.spaces[k].projection IN
                  /\ IsList(projection)
                  /\ \A e \in DOMAIN projection : IsList(projection[e])

Instance == lookupValue(config.problem, "instance", <<>>)

\* The problem says what goes in and out; set_dims numbers its dimensions.
set_dims ==
  /\ stage = "dimensions"
  /\ {"io", "dimensions"} \subseteq DOMAIN config.problem
  /\ LET dims == config.problem.dimensions IN
       /\ FactorizedDimensionNameToID' = [d \in ToSet(dims) |-> IdIn(dims, d)]
       /\ FactorizedDimensionIDToName' = [i \in 0 .. Len(dims) - 1 |-> dims[i + 1]]
  /\ Turn("ops")
  /\ UNCHANGED <<tensor, current_shape_, shapeVars, workloads_, factorized_bounds_>>

RefuseProblem ==
  /\ stage = "dimensions"
  /\ ~({"io", "dimensions"} \subseteq DOMAIN config.problem)
  /\ Exit(Abort)
  /\ UNCHANGED problemVars

Op == Entry(Ops)

InOps == stage = "ops" /\ MoreOf(Ops)

\* add_workload up to the tensors: the name is new, the dimensions are known.
\* A false result fails the assertion around the call.
NewWorkload(op) ==
  /\ op.name \notin DOMAIN workloads_
  /\ ToSet(op.dimensions) \subseteq DOMAIN FactorizedDimensionNameToID

\* The constructor of a Workload makes its shape the current one.
BeginWorkload ==
  /\ InOps
  /\ tensor = 0
  /\ ParseWorkload(Op)
  /\ NewWorkload(Op)
  /\ current_shape_' = next
  /\ tensor' = 1
  /\ UNCHANGED <<stage, next, dimVars, shapeVars, workloads_, factorized_bounds_>>

RefuseWorkload ==
  /\ InOps
  /\ tensor = 0
  /\ ~(ParseWorkload(Op) /\ NewWorkload(Op))
  /\ Exit(Abort)
  /\ UNCHANGED problemVars

InTensors == InOps /\ tensor \in 1 .. Len(Op.spaces)

Space == Op.spaces[tensor]

Rank(space) == Len(space.projection)

\* "tensor has mismatched order".
SameRank(space) == DataSpaceOrder[DataSpaceNameToID[space.name]] = Rank(space)

\* A tensor that an earlier operation has brought: its projection is not
\* compared.
KnownTensor ==
  /\ InTensors
  /\ Space.name \in DOMAIN DataSpaceNameToID
  /\ IF SameRank(Space) THEN tensor' = tensor + 1 /\ UNCHANGED <<stage, next>>
                        ELSE Exit(Abort) /\ UNCHANGED tensor
  /\ UNCHANGED <<current_shape_, dimVars, shapeVars, workloads_, factorized_bounds_>>

\* CoefficientNameToID[name] makes an entry 0 for a name it does not know.
CoefficientsLookedUp(op, proj) ==
  LET ids == {term[1] : term \in UNION {ToSet(proj[e]) : e \in DOMAIN proj}}
      known == ids \ {Len(op.coefficients)}
  IN  Over(CoefficientNameToID, [c \in {op.coefficients[i + 1] : i \in known} |-> 0])

\* Bug: the id that the operation gave to a dimension is taken over.
LocalTerm(op, term, coefficients) ==
  <<IF term[1] = Len(op.coefficients) THEN NoCoefficient
    ELSE coefficients[op.coefficients[term[1] + 1]],
    term[2]>>

\* A term of the operation's shape in the numbers of common_shape_.
CommonTerm(op, term, coefficients) ==
  <<IF term[1] = Len(op.coefficients) THEN NoCoefficient
    ELSE coefficients[op.coefficients[term[1] + 1]],
    FactorizedDimensionNameToID[op.dimensions[term[2] + 1]]>>

NewTensor ==
  /\ InTensors
  /\ Space.name \notin DOMAIN DataSpaceNameToID
  /\ LET proj == Projection(Op, Space)
         coefficients == CoefficientsLookedUp(Op, proj)
         id == Len(Projections)
     IN  /\ CoefficientNameToID' = coefficients
         /\ Projections' = Append(Projections,
              [e \in DOMAIN proj |-> [t \in DOMAIN proj[e] |->
                 CommonTerm(Op, proj[e][t], coefficients)]])
         /\ DataSpaceOrder' = Put(DataSpaceOrder, id, Rank(Space))
         /\ DataSpaceNameToID' = Put(DataSpaceNameToID, Space.name, id)
  /\ tensor' = tensor + 1
  /\ UNCHANGED <<stage, next, current_shape_, dimVars, CoefficientIDToName,
                 workloads_, factorized_bounds_>>

\* Bug: the assertion around add_workload is compiled away.
StoreNothing(op) == workloads_

StoreWorkload(op) ==
  Put(workloads_, op.name, [ins |-> op.ins, out |-> op.outs[1], entry |-> next])

\* The end of add_workload: every coefficient of the operation gets a new id,
\* known or not.
EndWorkload ==
  /\ InOps
  /\ tensor > Len(Op.spaces)
  /\ LET n == Cardinality(DOMAIN CoefficientIDToName)
         names == Op.coefficients
     IN  /\ CoefficientIDToName' =
              Over([i \in n .. n + Len(names) - 1 |-> names[i - n + 1]], CoefficientIDToName)
         /\ CoefficientNameToID' =
              Over([c \in ToSet(names) |-> n + IdIn(names, c)], CoefficientNameToID)
  /\ workloads_' = StoreWorkload(Op)
  /\ tensor' = 0
  /\ Advance
  /\ UNCHANGED <<current_shape_, dimVars, DataSpaceNameToID, DataSpaceOrder,
                 Projections, factorized_bounds_>>

EndOps ==
  /\ stage = "ops"
  /\ ~MoreOf(Ops)
  /\ exists(config.problem, "instance")
  /\ Turn("instance")
  /\ UNCHANGED problemVars

\* A problem without bounds ends the program.
RefuseInstance ==
  /\ stage = "ops"
  /\ ~MoreOf(Ops)
  /\ ~exists(config.problem, "instance")
  /\ Exit(Abort)
  /\ UNCHANGED problemVars

-----------------------------------------------------------------------------
\* The bound of a dimension: a macro, or a number for std::stoi.
BoundDefined(d) ==
  /\ exists(Instance, d)
  /\ LET word == Instance[d] IN IsMacro(word) \/ IsNumber(word)

BoundOf(d) ==
  LET word == Instance[d]
  IN  IF IsMacro(word) THEN config.macros[word] ELSE strtol(word)

\* Bug: the loop over the dimensions does not go on.
ParseBoundAgain ==
  /\ stage = "instance"
  /\ MoreOf(config.problem.dimensions)
  /\ UNCHANGED <<stage, next, problemVars>>

\* set_factorized_bound.
ParseBound ==
  /\ stage = "instance"
  /\ MoreOf(config.problem.dimensions)
  /\ LET d == Entry(config.problem.dimensions) IN
       IF BoundDefined(d)
       THEN /\ factorized_bounds_' =
                 Put(factorized_bounds_, FactorizedDimensionNameToID[d], BoundOf(d))
            /\ Advance
       ELSE Exit(Abort) /\ UNCHANGED factorized_bounds_
  /\ UNCHANGED <<tensor, current_shape_, dimVars, shapeVars, workloads_>>

\* Bug: the shape of the operation that was read last stays the current one.
KeepCurrShape == current_shape_

\* problem::Workload::SetCurrShape in main.
SetCurrShape == CommonShape

EndProblem ==
  /\ stage = "instance"
  /\ ~MoreOf(config.problem.dimensions)
  /\ current_shape_' = SetCurrShape
  /\ Turn("mapping")
  /\ UNCHANGED <<tensor, dimVars, shapeVars, workloads_, factorized_bounds_>>

ProblemNext ==
  \/ set_dims \/ RefuseProblem \/ BeginWorkload \/ RefuseWorkload \/ KnownTensor
  \/ NewTensor \/ EndWorkload \/ EndOps \/ RefuseInstance \/ ParseBound
  \/ EndProblem

\* FactorizedDimensionNameToID of the current shape (problem::GetShape).
CurrentDims ==
  IF current_shape_ = CommonShape THEN FactorizedDimensionNameToID
  ELSE LET dims == IF current_shape_ = EmptyShape THEN <<>>
                   ELSE Ops[current_shape_].dimensions
       IN  [d \in ToSet(dims) |-> IdIn(dims, d)]

\* getDimName of the analyses: the dimensions of a tensor, by name.
getDimName(t) ==
  LET terms == FlattenSeq(Projections[DataSpaceNameToID[t] + 1])
  IN  [i \in DOMAIN terms |-> FactorizedDimensionIDToName[terms[i][2]]]

-----------------------------------------------------------------------------
\* The dimensions that a tensor of an operation is declared with.
DeclaredDims(space) ==
  LET terms == FlattenSeq(space.projection) IN [i \in DOMAIN terms |-> terms[i][1]]

\* A tensor of an operation: the entry of the operation, and its own.
SpaceAt(p) == Ops[p[1]].spaces[p[2]]

Before(p, q) == p[1] < q[1] \/ (p[1] = q[1] /\ p[2] < q[2])

\* The tensors of the operations that were read so far.
SpacesRead ==
  {p \in UNION {{i} \X DOMAIN Ops[i].spaces : i \in DOMAIN Ops} :
    stage = "ops" => Before(p, <<next, tensor>>)}

\* The first of them with that name.
IsFirst(p, name) ==
  /\ SpaceAt(p).name = name
  /\ \A q \in SpacesRead : Before(q, p) => SpaceAt(q).name # name

\* A tensor means to the analyses (getDimName) what the first operation that
\* names it says, whatever numbers that operation and the problem have for
\* its dimensions and whichever operations come later; and each operation
\* that names it agrees on its rank.
TensorKeepsFirstProjection ==
  stage \in {"ops", "instance", "mapping", "loaded"} =>
    \A p, first \in SpacesRead :
      LET name == SpaceAt(p).name IN
        IsFirst(first, name) =>
          /\ getDimName(name) = DeclaredDims(SpaceAt(first))
          /\ Rank(SpaceAt(p)) = Rank(SpaceAt(first))

\* A problem that is accepted has all its operations, each under a name of
\* its own, with its own inputs and output (get_workload finds them).
WorkloadsComplete ==
  stage \in {"instance", "mapping", "loaded"} =>
    \A i \in 1 .. Len(Ops) :
      /\ Ops[i].name \in DOMAIN workloads_
      /\ workloads_[Ops[i].name] =
           [ins |-> Ops[i].ins, out |-> Ops[i].outs[1], entry |-> i]
=============================================================================
