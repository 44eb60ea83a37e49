-------------------------- MODULE PointerAnalysis --------------------------
(***************************************************************************)
(* CFGFunction::pointerAnalysis: for every pointer of a function, the      *)
(* values that hold the size of the memory it points to, and the pointers  *)
(* it may equal.  Three loops: one over the pointers of unknown size, one  *)
(* over the incoming values of PHI nodes, and one that replaces every PHI  *)
(* node in the alias set of another by what that one may equal.            *)
(*                                                                         *)
(* A std::set of instructions is walked in the order of their addresses in *)
(* the compiler, which nobody controls: it is part of the input.           *)
(***************************************************************************)
EXTENDS Integers, Sequences, FiniteSets, SequencesExt, AddressOrder

CONSTANTS
  Pointers,   \* the pointers of a function
  Blocks,     \* its basic blocks
  Elsewhere,  \* an operand that is none of them: a global, null, an argument
  Programs    \* the functions to analyse

Allocating == {"alloca", "malloc", "argv"}
Derived    == {"gep", "bitcast", "load"}
\* "calloc" stands for what isAllocationFn admits and extractMallocCall does not,
\* "vla" for an alloca whose number of elements is no constant, "other" for
\* selects, calls and the rest.
Unsizable  == {"calloc", "vla"}
Kinds      == Allocating \cup Derived \cup Unsizable \cup {"phi", "other"}

\* "operand" is the pointer that a derived one is made from, "incoming" what a
\* PHI node takes from which block: from one block, one value.  "addresses" is the
\* order of the instructions in memory.  "noAlias" are the pairs for which
\* AliasAnalysis answers NoAlias.
ASSUME ProgramsAssumption ==
  /\ Elsewhere \notin Pointers
  /\ \A p \in Programs :
       /\ DOMAIN p.kind \subseteq Pointers /\ \A v \in DOMAIN p.kind : p.kind[v] \in Kinds
       /\ p.operand \in [DOMAIN p.kind -> DOMAIN p.kind \cup {Elsewhere}]
       /\ p.incoming \in [DOMAIN p.kind -> Seq((DOMAIN p.kind \cup {Elsewhere}) \X Blocks)]
       /\ \A v \in DOMAIN p.kind : \A i, j \in DOMAIN p.incoming[v] :
            p.incoming[v][i][2] = p.incoming[v][j][2] => p.incoming[v][i] = p.incoming[v][j]
       /\ p.addresses \in Seq(DOMAIN p.kind) /\ Range(p.addresses) = DOMAIN p.kind

\* "holds" are the pointers that the PHI nodes hold together at one point of a run
\* after another: each holds an incoming value, or what the incoming PHI node held
\* at an earlier point.  The answers of AliasAnalysis are true of these points.
ASSUME HoldsAssumption ==
  \A p \in Programs :
    LET nodes == {v \in DOMAIN p.kind : p.kind[v] = "phi"}
    IN  /\ p.holds \in Seq(UNION {[S -> (DOMAIN p.kind \cup {Elsewhere}) \ nodes] :
                                     S \in SUBSET nodes})
        /\ \A i \in DOMAIN p.holds : \A phi \in DOMAIN p.holds[i] :
             \E pair \in Range(p.incoming[phi]) :
               \/ pair[1] \notin nodes /\ p.holds[i][phi] = pair[1]
               \/ \E j \in 1 .. i - 1 : /\ pair[1] \in DOMAIN p.holds[j]
                                        /\ p.holds[i][phi] = p.holds[j][pair[1]]
        /\ \A h \in Range(p.holds) : \A pair \in p.noAlias :
             pair[1] \in DOMAIN h =>
               h[pair[1]] # IF pair[2] \in DOMAIN h THEN h[pair[2]] ELSE pair[2]

VARIABLES
  phase,    \* "collect", "pointers", "phis", "aliases", "done" or "stopped"
  program,  \* the function
  size,     \* pointerInformation: whose size a pointer has, for those known,
  aliases,  \* and its alias set
  unknown,  \* unknownSizeAliasPointers, then unknownSizePHINodeAliasPointers
  sizePhi,  \* what the size PHI nodes of a PHI node take from which block
  sweep,    \* what is left of the pass over a set
  found,    \* pointersToRemove
  changed   \* whether the alias sets have changed in this pass

info == <<size, aliases, sizePhi>>
vars == <<phase, program, info, unknown, sweep, found, changed>>

Kind(v)          == program.kind[v]
OfKind(kinds)    == {v \in DOMAIN program.kind : Kind(v) \in kinds}
Phis             == OfKind({"phi"})
Incoming(phi)    == Range(program.incoming[phi])
InAddressOrder(S) == Walk(program.addresses, S)
\* The map f with a value put in for v.
With(f, v, value) ==
  [w \in DOMAIN f \cup {v} |-> IF w = v THEN value ELSE f[w]]

----------------------------------------------------------------------------

Init ==
  /\ phase = "collect" /\ program \in Programs
  /\ size = << >> /\ aliases = << >> /\ sizePhi = << >>
  /\ unknown = {} /\ sweep = << >> /\ found = {} /\ changed = FALSE

\* Allocations, argv and PHI nodes are known at once: an allocation has a size
\* and aliases itself, a PHI node gets two PHI nodes for its size and at first
\* aliases its incoming values.
CollectPointers ==
  /\ phase = "collect" /\ OfKind(Unsizable) = {}
  /\ size' = [v \in OfKind(Allocating \cup {"phi"}) |-> v]
  /\ aliases' = [v \in OfKind(Allocating \cup {"phi"}) |->
                   IF v \in Phis THEN {pair[1] : pair \in Incoming(v)} ELSE {v}]
  /\ sizePhi' = [phi \in Phis |-> << >>]
  /\ unknown' = OfKind(Derived \cup {"other"})
  /\ sweep' = InAddressOrder(unknown')
  /\ phase' = "pointers"
  /\ UNCHANGED <<program, found, changed>>

\* extractMallocCall returns null for the other allocation functions, and the cast
\* of the number of elements to a ConstantInt fails.
NoAllocationSize ==
  /\ phase = "collect" /\ OfKind(Unsizable) # {}
  /\ phase' = "stopped"
  /\ UNCHANGED <<program, info, unknown, sweep, found, changed>>

----------------------------------------------------------------------------
(* "Set up aliasing of non PHINodes" *)

SizeFrom_Itself(pointer) == pointer
SizeFrom(pointer) == size[pointer]
AliasesFrom_Copied(pointer) == aliases[pointer]
AliasesFrom(pointer) == {pointer}

\* A derived pointer has the size of what it is derived from, once that is
\* known, and aliases it.
VisitPointer ==
  /\ phase = "pointers" /\ sweep # << >>
  /\ LET v       == Head(sweep)
         pointer == program.operand[v]
     IN  /\ Kind(v) # "other"
         /\ IF pointer \in DOMAIN size
            THEN /\ size' = With(size, v, SizeFrom(pointer))
                 /\ aliases' = With(aliases, v, AliasesFrom(pointer))
                 /\ found' = found \cup {v}
            ELSE UNCHANGED <<size, aliases, found>>
  /\ sweep' = Tail(sweep)
  /\ UNCHANGED <<phase, program, sizePhi, unknown, changed>>

NotSupported ==
  /\ phase = "pointers" /\ sweep # << >> /\ Kind(Head(sweep)) = "other"
  /\ phase' = "stopped"
  /\ UNCHANGED <<program, info, unknown, sweep, found, changed>>

EndSweep ==
  /\ phase = "pointers" /\ sweep = << >>
  /\ found' = {}
  /\ IF unknown = found
     THEN phase' = "phis" /\ unknown' = Phis
     ELSE unknown' = unknown \ found /\ UNCHANGED phase
  /\ sweep' = InAddressOrder(unknown')
  /\ UNCHANGED <<program, info, changed>>

----------------------------------------------------------------------------
(* "Find pointer type size and num elements for PHINodes" *)

HasEntry(entries, b) == \E i \in DOMAIN entries : entries[i][2] = b

\* One more incoming value; getBasicBlockIndex tells whether its block is there.
WithEntry_AnyBlock(entries, pair) ==
  IF pair[1] \in DOMAIN size THEN Append(entries, <<size[pair[1]], pair[2]>>)
  ELSE entries
WithEntry(entries, pair) ==
  IF HasEntry(entries, pair[2]) \/ pair[1] \notin DOMAIN size THEN entries
  ELSE Append(entries, <<size[pair[1]], pair[2]>>)

\* What the size PHI nodes have after a loop over the incoming values of phi.
WithIncoming(phi) ==
  LET pairs == program.incoming[phi]
      entries[i \in 0 .. Len(pairs)] ==
        IF i = 0 THEN sizePhi[phi] ELSE WithEntry(entries[i - 1], pairs[i])
  IN  entries[Len(pairs)]

AllKnown_Some(phi, entries) == entries # << >>
AllKnown(phi, entries) == \A pair \in Incoming(phi) : HasEntry(entries, pair[2])

VisitSizePhi ==
  /\ phase = "phis" /\ sweep # << >>
  /\ LET phi     == Head(sweep)
         entries == WithIncoming(phi)
     IN  /\ sizePhi' = [sizePhi EXCEPT ![phi] = entries]
         /\ found' = IF AllKnown(phi, entries) THEN found \cup {phi} ELSE found
  /\ sweep' = Tail(sweep)
  /\ UNCHANGED <<phase, program, size, aliases, unknown, changed>>

EndPhiSweep ==
  /\ phase = "phis" /\ sweep = << >>
  /\ found' = {}
  /\ IF unknown = found
     THEN phase' = "aliases" /\ unknown' = {} /\ sweep' = InAddressOrder(Phis)
     ELSE /\ unknown' = unknown \ found /\ sweep' = InAddressOrder(unknown')
          /\ UNCHANGED phase
  /\ changed' = FALSE
  /\ UNCHANGED <<program, info>>

----------------------------------------------------------------------------
(* "Set up alias set for PHINodes" *)

\* What phi takes over from a PHI node in its alias set.
TakenFrom_OnlyPhis(phi, other) == aliases[other] \cap Phis
TakenFrom(phi, other) ==
  {v \in aliases[other] : <<phi, v>> \notin program.noAlias}

\* valuesToAdd, then valuesToRemove
Resolved_RemovedFirst(phi) ==
  LET others == aliases[phi] \cap Phis
  IN  (aliases[phi] \ others) \cup UNION {TakenFrom(phi, other) : other \in others}
Resolved(phi) ==
  LET others == aliases[phi] \cap Phis
  IN  (aliases[phi] \cup UNION {TakenFrom(phi, other) : other \in others}) \ others

\* addAlias says whether the set grew, removeAlias whether it shrank.
Changed_LastOnly(phi) == aliases[phi] \cap Phis # {}
Changed(phi) == changed \/ aliases[phi] \cap Phis # {}

VisitPhi ==
  /\ phase = "aliases" /\ sweep # << >>
  /\ LET phi == Head(sweep)
     IN  /\ aliases' = [aliases EXCEPT ![phi] = Resolved(phi)]
         /\ changed' = Changed(phi)
  /\ sweep' = Tail(sweep)
  /\ UNCHANGED <<phase, program, size, sizePhi, unknown, found>>

EndAliasPass ==
  /\ phase = "aliases" /\ sweep = << >>
  /\ IF changed THEN sweep' = InAddressOrder(Phis) /\ UNCHANGED phase
     ELSE phase' = "done" /\ UNCHANGED sweep
  /\ changed' = FALSE
  /\ UNCHANGED <<program, info, unknown, found>>

Next == CollectPointers \/ NoAllocationSize \/ VisitPointer \/ NotSupported \/ EndSweep
          \/ VisitSizePhi \/ EndPhiSweep \/ VisitPhi \/ EndAliasPass
Spec     == Init /\ [][Next]_vars
\* The analysis is a sequential program.
FairSpec == Spec /\ WF_vars(Next)

----------------------------------------------------------------------------
(* The pointers of the function, as a graph *)

\* What a pointer is computed from.
Sources(v) == IF v \in Phis THEN {pair[1] : pair \in Incoming(v)}
              ELSE IF Kind(v) \in Derived THEN {program.operand[v]} ELSE {}

\* What is reached from v along the edges, in one step or more: it is in every set
\* that holds where the edges from v and from its own members lead.
Values == DOMAIN program.kind \cup {Elsewhere}
ReachedFrom(v, edges) ==
  LET closed == {S \in SUBSET Values :
                   \A edge \in edges : edge[1] \in {v} \cup S => edge[2] \in S}
  IN  {w \in Values : \A S \in closed : w \in S}

Origins(v) ==
  ReachedFrom(v, UNION {{w} \X Sources(w) : w \in DOMAIN program.kind})

\* Nothing comes from anywhere but an allocation or argv.
Rooted == \A v \in OfKind(Derived \cup {"phi"}) : Elsewhere \notin Origins(v)
Supported == OfKind(Unsizable \cup {"other"}) = {}

\* A pointer is carried round a loop by a PHI node and changed on the way.
CarriedAndChanged == \E v \in OfKind(Derived) : v \in Origins(v)

\* The calls addPointerUses(v) makes: once round is for ever.
Recursion == UNION {{v} \X (aliases[v] \ {v}) : v \in DOMAIN aliases}
RecursionEnds ==
  \A v \in DOMAIN aliases : v \notin ReachedFrom(v, Recursion)

----------------------------------------------------------------------------
(* Properties *)

\* The types: a pointer has a size exactly if it has an alias set.
TypeOK ==
  /\ phase \in {"collect", "pointers", "phis", "aliases", "done", "stopped"}
  /\ DOMAIN size = DOMAIN aliases /\ DOMAIN size \subseteq DOMAIN program.kind
  /\ \A v \in DOMAIN size :
       /\ size[v] \in OfKind(Allocating \cup {"phi"})
       /\ aliases[v] \subseteq DOMAIN program.kind \cup {Elsewhere}
  /\ unknown \cup found \cup Range(sweep) \subseteq DOMAIN program.kind
  /\ changed \in BOOLEAN

\* "This pointer points to memory allocated by": a PHI node's alias set has every
\* pointer it ever holds.
TargetsFound ==
  phase = "done" =>
    \A h \in Range(program.holds) : \A phi \in DOMAIN h : h[phi] \in aliases[phi]

\* So it is as long as AliasAnalysis does not tell PHI nodes of one loop apart:
\* that two never hold one pointer together does not mean that one never holds
\* what the other held before.
TargetsFoundUnlessToldApart ==
  (\A pair \in program.noAlias : pair[2] \notin Phis) => TargetsFound

\* No PHI node is left in the alias set of another, for the third loop would
\* have gone on, and nothing is in it that the PHI node cannot be computed from.
PhisResolved ==
  phase = "done" =>
    \A phi \in Phis : aliases[phi] \subseteq Origins(phi) \ Phis

\* The size PHI nodes take, from every block, the size of what their PHI node
\* takes from there; there are fewer entries than edges exactly when a block has
\* two edges to the PHI node's.
SizesFollow ==
  phase \in {"aliases", "done"} =>
    \A phi \in Phis :
      LET from == program.incoming[phi]
      IN  /\ Range(sizePhi[phi]) = {<<size[pair[1]], pair[2]>> : pair \in Range(from)}
          /\ Len(sizePhi[phi]) = Cardinality({pair[2] : pair \in Range(from)})

\* addPointerUses and the block filling that recurses in the same way come back,
\* except for a pointer that a loop changes and carries, such as p++: where
\* AliasAnalysis helps nothing they never do.
RecursesForEverOnlyIfChanged ==
  phase = "done" =>
    /\ ~CarriedAndChanged => RecursionEnds
    /\ CarriedAndChanged /\ program.noAlias = {} => ~RecursionEnds

\* The loops over unknown sizes never get past a pointer that comes from
\* anywhere but an allocation or argv ...
DoneOnlyIfRooted == phase \in {"aliases", "done"} => Rooted

\* ... and all three loops end for the others.
EndsIfRooted == Rooted => <>(phase \in {"done", "stopped"})
=============================================================================
