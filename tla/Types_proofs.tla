---------------------------- MODULE Types_proofs ----------------------------
(***************************************************************************)
(* Proofs about the table of types, for every number of addresses, structs *)
(* and builtin types.  The invariant says how the table is linked: a       *)
(* pointer type is on the heap exactly as long as the entry of the type it *)
(* points to refers to it, except for the one that free_type has taken off *)
(* its holder and is about to free.                                        *)
(***************************************************************************)
EXTENDS Types, TLAPS

\* A builtin whose pointers free_global_state has not got to.
Unfreed(s) ==
    /\ s \in Static
    /\ stage # "done"
    /\ stage = "exit" => \E i \in DOMAIN Builtins : Builtins[i] = s /\ i >= at
Holder(q) == q \in live \/ Unfreed(q)

Chained ==
    \A p \in live :
        /\ kind[p] \in {"pointer", "struct"}
        /\ kind[p] = "pointer" /\ p # t =>
            Holder(valuetype[p]) /\ pointer[valuetype[p]] = p
Linked ==
    \A q \in Places : Holder(q) /\ pointer[q] # NULL =>
        pointer[q] \in live /\ kind[pointer[q]] = "pointer" /\ valuetype[pointer[q]] = q
CursorIsLoose ==
    t # NULL =>
        /\ t \in live
        /\ stage \in {"destroy", "exit"}
        /\ kind[t] = "pointer" => ~Holder(valuetype[t])
StructsWait ==
    /\ \A i, j \in DOMAIN structs : structs[i] = structs[j] => i = j
    /\ stage \in {"compile", "codegen", "destroy"} =>
        \A i \in DOMAIN structs : (stage = "destroy" => i >= at) =>
            structs[i] \in live /\ kind[structs[i]] = "struct" /\ structs[i] # t
NothingFreedYet ==
    stage \in {"compile", "codegen"} =>
        /\ at = 1
        /\ in_use \subseteq live
        /\ \A a \in Addresses : fieldtypes[a] \subseteq live \cup Static

TableIsLinked == Chained /\ Linked /\ CursorIsLoose /\ StructsWait /\ NothingFreedYet
IInv == TypeOK /\ TableIsLinked
-----------------------------------------------------------------------------
LEMMA ConstantFacts ==
    /\ \A i \in DOMAIN Builtins : Builtins[i] \in Static /\ i \in Nat /\ i >= 1 /\ i <= Len(Builtins)
    /\ \A i \in Nat : i >= 1 /\ i <= Len(Builtins) => i \in DOMAIN Builtins
    /\ \A i, j \in DOMAIN Builtins : Builtins[i] = Builtins[j] => i = j
    /\ \A s \in Static : \E i \in DOMAIN Builtins : Builtins[i] = s
    /\ \A a \in Addresses : a \notin Static /\ a # NULL
    /\ \A s \in Static : s # NULL
    /\ Places = Addresses \cup Static
    /\ Len(Builtins) \in Nat
  <1>1. Builtins \in Seq(Static) /\ (\A i, j \in DOMAIN Builtins : Builtins[i] = Builtins[j] => i = j)
    BY BuiltinsAssumption
  <1>2. Addresses \cap Static = {} /\ NULL \notin Places
    BY AddressesAssumption
  <1>3. Len(Builtins) \in Nat /\ DOMAIN Builtins = 1 .. Len(Builtins)
    BY <1>1
  <1>4. /\ \A i \in DOMAIN Builtins : Builtins[i] \in Static
        /\ \A s \in Static : \E i \in DOMAIN Builtins : Builtins[i] = s
    BY DEF Static
  <1> HIDE DEF Static
  <1> QED
    BY <1>1, <1>2, <1>3, <1>4 DEF Places

LEMMA InitInvariant == Init => IInv
  <1> SUFFICES ASSUME Init PROVE IInv
    OBVIOUS
  <1>1. TypeOK
    <2>1. stage \in Stages /\ failed \in BOOLEAN
      BY DEF Init, Stages
    <2>2. live \subseteq Addresses /\ in_use \subseteq Addresses /\ structs \in Seq(Addresses)
      BY DEF Init
    <2>3. /\ kind \in [Addresses -> {"pointer", "struct", NULL}]
          /\ valuetype \in [Addresses -> Places \cup {NULL}]
          /\ fieldtypes \in [Addresses -> SUBSET Places]
      BY DEF Init
    <2>4. pointer \in [Places -> Addresses \cup {NULL}]
      BY DEF Init
    <2>5. t \in Addresses \cup {NULL} /\ at \in Nat \ {0}
      BY DEF Init
    <2> QED
      BY <2>1, <2>2, <2>3, <2>4, <2>5 DEF TypeOK
  <1>2. Chained /\ Linked /\ CursorIsLoose
    BY ConstantFacts DEF Init, Chained, Linked, CursorIsLoose
  <1>3. StructsWait /\ NothingFreedYet
    BY DEF Init, StructsWait, NothingFreedYet
  <1> QED
    BY <1>1, <1>2, <1>3 DEF IInv, TableIsLinked

LEMMA TypeOKStep == IInv /\ [Next]_vars => TypeOK'
  <1> SUFFICES ASSUME IInv, [Next]_vars PROVE TypeOK'
    OBVIOUS
  <1> USE ConstantFacts DEF IInv, TypeOK, Stages
  <1>1. ASSUME NEW type \in Places, get_pointer_type(type) PROVE TypeOK'
    <2>1. CASE pointer[type] # NULL
      BY <1>1, <2>1 DEF get_pointer_type, table
    <2>2. CASE pointer[type] = NULL
      <3>1. PICK result \in Addresses \ live :
              /\ live' = live \cup {result}
              /\ kind' = [kind EXCEPT ![result] = "pointer"]
              /\ valuetype' = [valuetype EXCEPT ![result] = type]
              /\ pointer' = [pointer EXCEPT ![type] = result, ![result] = NULL]
              /\ in_use' = in_use \cup {result}
              /\ fieldtypes' = fieldtypes
        BY <1>1, <2>2 DEF get_pointer_type
      <3>2. pointer' \in [Places -> Addresses \cup {NULL}]
        BY <3>1
      <3>3. UNCHANGED <<stage, structs, t, at, failed>>
        BY <1>1 DEF get_pointer_type
      <3> QED
        BY <3>1, <3>2, <3>3
    <2> QED
      BY <2>1, <2>2
  <1>2. ASSUME NEW types \in SUBSET Places, create_struct(types) PROVE TypeOK'
    BY <1>2 DEF create_struct
  <1>3. CASE MentionStruct
    BY <1>3 DEF MentionStruct, table
  <1>4. CASE CompileDone \/ CompileFails
    BY <1>4 DEF CompileDone, CompileFails, table
  <1>5. CASE CodegenDone \/ ProgramRuns \/ Exited
    BY <1>5 DEF CodegenDone, ProgramRuns, Exited, table
  <1>6. CASE free_type
    BY <1>6 DEF free_type
  <1>7. CASE destroy_type_context
    BY <1>7 DEF destroy_type_context, table
  <1>8. CASE GraphsFreed
    BY <1>8 DEF GraphsFreed, table
  <1>9. CASE free_global_state
    BY <1>9 DEF free_global_state, table
  <1>10. CASE UNCHANGED vars
    BY <1>10 DEF vars, table
  <1> QED
    BY <1>1, <1>2, <1>3, <1>4, <1>5, <1>6, <1>7, <1>8, <1>9, <1>10 DEF Next, Done
-----------------------------------------------------------------------------
\* A type found in the table, or mentioned: nothing in the table changes.
LEMMA MentionStep ==
  ASSUME IInv, stage = "compile", UNCHANGED <<stage, table, structs, t, at>>,
         in_use' \subseteq live
  PROVE  TableIsLinked'
  <1> USE DEF IInv, TableIsLinked, table
  <1>1. Chained' /\ Linked' /\ CursorIsLoose'
    BY DEF Chained, Linked, CursorIsLoose, Holder, Unfreed
  <1>2. StructsWait' /\ NothingFreedYet'
    BY DEF StructsWait, NothingFreedYet
  <1> QED
    BY <1>1, <1>2

\* A new pointer type hangs on its value type, and nothing hangs on it.
LEMMA PointerStep ==
  ASSUME IInv, stage = "compile",
         NEW type \in Places, IsUsable(type), pointer[type] = NULL,
         NEW result \in Addresses \ live,
         live' = live \cup {result},
         kind' = [kind EXCEPT ![result] = "pointer"],
         valuetype' = [valuetype EXCEPT ![result] = type],
         pointer' = [pointer EXCEPT ![type] = result, ![result] = NULL],
         in_use' = in_use \cup {result},
         UNCHANGED <<stage, fieldtypes, structs, t, at>>
  PROVE  TableIsLinked'
  <1> USE ConstantFacts DEF IInv, TypeOK, TableIsLinked
  <1>1. t = NULL
    BY DEF CursorIsLoose
  <1>2. \A q : Holder(q)' <=> Holder(q) \/ q = result
    BY DEF Holder, Unfreed
  <1>3. ~Holder(result) /\ Holder(type) /\ type # result
    BY DEF Holder, Unfreed, IsUsable
  <1>4. pointer'[type] = result /\ pointer'[result] = NULL
        /\ \A q \in Places \ {type, result} : pointer'[q] = pointer[q]
    BY <1>3
  <1>5. ASSUME NEW p \in live', p # result, kind'[p] = "pointer"
        PROVE  Holder(valuetype[p])' /\ pointer'[valuetype'[p]] = p
    <2>1. p \in live /\ kind[p] = "pointer" /\ valuetype'[p] = valuetype[p]
      BY <1>5
    <2>2. Holder(valuetype[p]) /\ pointer[valuetype[p]] = p /\ p # NULL
      BY <2>1, <1>1 DEF Chained
    <2>3. valuetype[p] \notin {type, result} /\ valuetype[p] \in Places
      <3>1. valuetype[p] # type
        BY <2>2
      <3>2. valuetype[p] # result
        BY <2>2, <1>3
      <3>3. valuetype[p] \in Places
        BY <2>2 DEF Holder, Unfreed
      <3> QED
        BY <3>1, <3>2, <3>3
    <2> QED
      BY <2>1, <2>2, <2>3, <1>2, <1>4
  <1>6. Chained'
    <2>1. kind'[result] = "pointer" /\ valuetype'[result] = type
      OBVIOUS
    <2>2. \A p \in live' : kind'[p] \in {"pointer", "struct"}
      BY DEF Chained
    <2>3. Holder(valuetype[result])' /\ pointer'[valuetype'[result]] = result
      BY <1>2, <1>3, <1>4, <2>1
    <2>4. UNCHANGED t
      OBVIOUS
    <2> QED
      BY <1>5, <2>2, <2>3, <2>4 DEF Chained
  <1>7. ASSUME NEW q \in Places, Holder(q)', pointer'[q] # NULL
        PROVE  pointer'[q] \in live' /\ kind'[pointer'[q]] = "pointer" /\ valuetype'[pointer'[q]] = q
    <2>1. CASE q = type
      BY <2>1, <1>4
    <2>2. CASE q # type
      <3>1. q # result /\ pointer'[q] = pointer[q] /\ Holder(q)
        BY <1>7, <2>2, <1>2, <1>4
      <3>2. pointer[q] \in live /\ kind[pointer[q]] = "pointer" /\ valuetype[pointer[q]] = q
        BY <3>1, <1>7 DEF Linked
      <3> QED
        BY <3>1, <3>2
    <2> QED
      BY <2>1, <2>2
  <1>8. Linked'
    BY <1>7 DEF Linked
  <1>9. CursorIsLoose'
    BY <1>1 DEF CursorIsLoose
  <1>10. StructsWait'
    BY DEF StructsWait
  <1>11. NothingFreedYet'
    BY DEF NothingFreedYet
  <1> QED
    BY <1>6, <1>8, <1>9, <1>10, <1>11

LEMMA StructStep ==
  ASSUME IInv, stage = "compile",
         NEW types \in SUBSET Places, \A type \in types : IsUsable(type),
         NEW result \in Addresses \ live,
         live' = live \cup {result},
         kind' = [kind EXCEPT ![result] = "struct"],
         fieldtypes' = [fieldtypes EXCEPT ![result] = types],
         pointer' = [pointer EXCEPT ![result] = NULL],
         structs' = Append(structs, result),
         UNCHANGED <<stage, valuetype, in_use, t, at>>
  PROVE  TableIsLinked'
  <1> USE ConstantFacts DEF IInv, TypeOK, TableIsLinked
  <1>1. t = NULL
    BY DEF CursorIsLoose
  <1>2. \A q : Holder(q)' <=> Holder(q) \/ q = result
    BY DEF Holder, Unfreed
  <1>3. ~Holder(result) /\ pointer'[result] = NULL /\ kind'[result] = "struct"
    BY DEF Holder, Unfreed
  <1>4. \A p \in live : kind'[p] = kind[p] /\ p # result
    OBVIOUS
  <1>5. Chained'
    BY <1>1, <1>2, <1>3, <1>4 DEF Chained
  <1>6. Linked'
    BY <1>2, <1>3, <1>4 DEF Linked
  <1>7. CursorIsLoose'
    BY <1>1 DEF CursorIsLoose
  <1>8. \A i \in DOMAIN structs : structs[i] \in live /\ kind[structs[i]] = "struct"
    BY DEF StructsWait
  <1>9. /\ DOMAIN structs' = 1 .. Len(structs) + 1
        /\ \A i \in DOMAIN structs : structs'[i] = structs[i]
        /\ structs'[Len(structs) + 1] = result
        /\ DOMAIN structs = 1 .. Len(structs) /\ Len(structs) \in Nat
    OBVIOUS
  <1>10. \A i \in DOMAIN structs' : i \in DOMAIN structs \/ i = Len(structs) + 1
    BY <1>9
  <1>11. StructsWait'
    <2>1. \A i, j \in DOMAIN structs' : structs'[i] = structs'[j] => i = j
      BY <1>4, <1>8, <1>9, <1>10 DEF StructsWait
    <2>2. \A i \in DOMAIN structs' : structs'[i] \in live' /\ kind'[structs'[i]] = "struct"
      BY <1>3, <1>4, <1>8, <1>9, <1>10
    <2> QED
      BY <2>1, <2>2, <1>1 DEF StructsWait
  <1>12. NothingFreedYet'
    BY DEF NothingFreedYet, IsUsable
  <1> QED
    BY <1>5, <1>6, <1>7, <1>11, <1>12

\* What free_type is at is not held by anything, so that what is held stays;
\* its pointer type loses its holder and is next.
LEMMA FreeStep ==
  ASSUME IInv, free_type
  PROVE  TableIsLinked'
  <1> USE ConstantFacts DEF IInv, TypeOK, TableIsLinked
  <1>1. /\ t # NULL /\ live' = live \ {t} /\ t' = pointer[t]
        /\ UNCHANGED <<stage, kind, valuetype, fieldtypes, pointer, structs, in_use, at>>
    BY DEF free_type
  <1>2. t \in live /\ stage \in {"destroy", "exit"} /\ (kind[t] = "pointer" => ~Holder(valuetype[t]))
    BY <1>1 DEF CursorIsLoose
  <1>3. Holder(t) /\ t \in Places /\ t \notin Static
    BY <1>2 DEF Holder
  <1>4. \A q : Holder(q)' <=> Holder(q) /\ q # t
    BY <1>1, <1>3 DEF Holder, Unfreed
  <1>5. \A q \in Places : Holder(q) /\ pointer[q] # NULL => pointer[q] # t
    BY <1>2 DEF Linked
  <1>6. Chained'
    <2>1. ASSUME NEW p \in live', kind[p] = "pointer", p # t'
          PROVE  Holder(valuetype[p])' /\ pointer[valuetype[p]] = p
      <3>1. p \in live /\ p # t
        BY <2>1, <1>1
      <3>2. Holder(valuetype[p]) /\ pointer[valuetype[p]] = p
        BY <2>1, <3>1 DEF Chained
      <3>3. valuetype[p] # t
        BY <3>2, <2>1, <1>1
      <3> QED
        BY <3>2, <3>3, <1>1, <1>4
    <2>2. \A p \in live' : kind[p] \in {"pointer", "struct"}
      BY <1>1 DEF Chained
    <2> QED
      BY <2>1, <2>2, <1>1 DEF Chained
  <1>7. Linked'
    BY <1>1, <1>4, <1>5 DEF Linked
  <1>8. CursorIsLoose'
    <2>1. CASE t' = NULL
      BY <2>1 DEF CursorIsLoose
    <2>2. CASE t' # NULL
      <3>1. t' \in live /\ kind[t'] = "pointer" /\ valuetype[t'] = t
        BY <2>2, <1>1, <1>3 DEF Linked
      <3>2. t' # t
        BY <2>2, <1>1, <1>3, <1>5
      <3>3. \A q : q = t => ~Holder(q)'
        BY <1>4
      <3> QED
        BY <3>1, <3>2, <3>3, <1>1, <1>2 DEF CursorIsLoose
    <2> QED
      BY <2>1, <2>2
  <1>9. StructsWait'
    <2>1. ASSUME NEW i \in DOMAIN structs, stage = "destroy", i >= at
          PROVE  structs[i] \in live' /\ kind[structs[i]] = "struct" /\ structs[i] # t'
      <3>1. structs[i] \in live /\ kind[structs[i]] = "struct" /\ structs[i] # t
        BY <2>1 DEF StructsWait
      <3>2. t' # NULL => kind[t'] = "pointer"
        BY <1>1, <1>3 DEF Linked
      <3> QED
        BY <3>1, <3>2, <1>1
    <2> QED
      BY <2>1, <1>1, <1>2 DEF StructsWait
  <1>10. NothingFreedYet'
    BY <1>1, <1>2 DEF NothingFreedYet
  <1> QED
    BY <1>6, <1>7, <1>8, <1>9, <1>10

\* The next struct is still there, and no other is the same.
LEMMA DestroyStep ==
  ASSUME IInv, destroy_type_context
  PROVE  TableIsLinked'
  <1> USE ConstantFacts DEF IInv, TypeOK, TableIsLinked
  <1>1. /\ stage = "destroy" /\ t = NULL /\ at <= Len(structs)
        /\ t' = structs[at] /\ at' = at + 1
        /\ UNCHANGED <<stage, live, kind, valuetype, fieldtypes, pointer, structs, in_use>>
    BY DEF destroy_type_context, table
  <1>2. at \in DOMAIN structs
    BY <1>1
  <1>3. structs[at] \in live /\ kind[structs[at]] = "struct"
    BY <1>1, <1>2 DEF StructsWait
  <1>4. \A q : Holder(q)' <=> Holder(q)
    BY <1>1 DEF Holder, Unfreed
  <1>5. Chained' /\ Linked'
    BY <1>1, <1>4 DEF Chained, Linked
  <1>6. CursorIsLoose'
    BY <1>1, <1>3 DEF CursorIsLoose
  <1>7. StructsWait'
    <2>1. \A i \in DOMAIN structs : i >= at + 1 => i >= at /\ i # at
      BY <1>1
    <2> QED
      BY <1>1, <1>2, <2>1 DEF StructsWait
  <1>8. NothingFreedYet'
    BY <1>1 DEF NothingFreedYet
  <1> QED
    BY <1>5, <1>6, <1>7, <1>8

\* Once free_global_state has taken the pointer type off a builtin, that
\* builtin counts as freed.
LEMMA GlobalStep ==
  ASSUME IInv, free_global_state
  PROVE  TableIsLinked'
  <1> USE ConstantFacts DEF IInv, TypeOK, TableIsLinked
  <1>1. /\ stage = "exit" /\ t = NULL /\ at <= Len(Builtins)
        /\ t' = pointer[Builtins[at]] /\ at' = at + 1
        /\ UNCHANGED <<stage, live, kind, valuetype, fieldtypes, pointer, structs, in_use>>
    BY DEF free_global_state, table
  <1>2. at \in DOMAIN Builtins /\ Builtins[at] \in Static /\ Builtins[at] \notin live
    BY <1>1
  <1>3. \A q : Holder(q)' <=> Holder(q) /\ q # Builtins[at]
    <2>1. \A i \in DOMAIN Builtins : i >= at + 1 <=> i >= at /\ i # at
      BY <1>1
    <2>2. \A i \in DOMAIN Builtins : Builtins[i] = Builtins[at] <=> i = at
      BY <1>2
    <2>3. \A s : Unfreed(s)' <=> Unfreed(s) /\ s # Builtins[at]
      BY <1>1, <2>1, <2>2 DEF Unfreed
    <2> QED
      BY <1>1, <1>2, <2>3 DEF Holder
  <1>4. Holder(Builtins[at])
    BY <1>1, <1>2 DEF Holder, Unfreed
  <1>5. Chained'
    <2>1. ASSUME NEW p \in live, kind[p] = "pointer", p # t'
          PROVE  Holder(valuetype[p])' /\ pointer[valuetype[p]] = p
      <3>1. Holder(valuetype[p]) /\ pointer[valuetype[p]] = p
        BY <2>1, <1>1 DEF Chained
      <3>2. valuetype[p] # Builtins[at]
        BY <3>1, <2>1, <1>1
      <3> QED
        BY <3>1, <3>2, <1>1, <1>3
    <2> QED
      BY <2>1, <1>1 DEF Chained
  <1>6. Linked'
    BY <1>1, <1>3 DEF Linked
  <1>7. CursorIsLoose'
    <2>1. CASE t' = NULL
      BY <2>1 DEF CursorIsLoose
    <2>2. CASE t' # NULL
      <3>1. t' \in live /\ valuetype[t'] = Builtins[at]
        BY <2>2, <1>1, <1>2, <1>4 DEF Linked
      <3>2. \A q : q = Builtins[at] => ~Holder(q)'
        BY <1>3
      <3> QED
        BY <3>1, <3>2, <1>1 DEF CursorIsLoose
    <2> QED
      BY <2>1, <2>2
  <1>8. StructsWait' /\ NothingFreedYet'
    BY <1>1 DEF StructsWait, NothingFreedYet
  <1> QED
    BY <1>5, <1>6, <1>7, <1>8

\* From one stage to the next: the table stays as it is, and what holds a
\* pointer still does.
LEMMA StageStep ==
  ASSUME IInv, CompileDone \/ CompileFails \/ CodegenDone \/ GraphsFreed \/ ProgramRuns \/ Exited
  PROVE  TableIsLinked'
  <1> USE ConstantFacts DEF IInv, TypeOK, TableIsLinked
  <1>1. t = NULL
    BY DEF CompileDone, CompileFails, CodegenDone, GraphsFreed, ProgramRuns, Exited, CursorIsLoose
  <1>2. UNCHANGED <<live, kind, valuetype, fieldtypes, pointer, t>>
    BY DEF CompileDone, CompileFails, CodegenDone, GraphsFreed, ProgramRuns, Exited, table
  <1>3. \A s \in Static : Unfreed(s)' <=> Unfreed(s)
    <2>1. CASE CompileDone \/ CodegenDone \/ GraphsFreed
      BY <2>1 DEF CompileDone, CodegenDone, GraphsFreed, Unfreed
    <2>2. CASE CompileFails \/ ProgramRuns
      <3>1. stage \in {"compile", "run"} /\ stage' = "exit" /\ at' = 1
        BY <2>2 DEF CompileFails, ProgramRuns, NothingFreedYet
      <3>2. \A s \in Static : \E i \in DOMAIN Builtins : Builtins[i] = s /\ i >= 1
        OBVIOUS
      <3> QED
        BY <3>1, <3>2 DEF Unfreed
    <2>3. CASE Exited
      <3>1. stage = "exit" /\ stage' = "done" /\ at > Len(Builtins)
        BY <2>3 DEF Exited
      <3>2. \A i \in DOMAIN Builtins : ~(i >= at)
        BY <3>1
      <3> QED
        BY <3>1, <3>2 DEF Unfreed
    <2> QED
      BY <2>1, <2>2, <2>3
  <1>4. \A q : Holder(q)' <=> Holder(q)
    BY <1>2, <1>3 DEF Holder, Unfreed
  <1>5. Chained' /\ Linked' /\ CursorIsLoose'
    BY <1>1, <1>2, <1>4 DEF Chained, Linked, CursorIsLoose
  <1>6. StructsWait'
    <2>1. CASE CompileDone \/ CodegenDone
      BY <2>1, <1>2 DEF CompileDone, CodegenDone, StructsWait
    <2>2. CASE CompileFails \/ GraphsFreed \/ ProgramRuns \/ Exited
      BY <2>2 DEF CompileFails, GraphsFreed, ProgramRuns, Exited, StructsWait
    <2> QED
      BY <2>1, <2>2
  <1>7. NothingFreedYet'
    BY <1>2 DEF CompileDone, CompileFails, CodegenDone, GraphsFreed, ProgramRuns, Exited, NothingFreedYet
  <1> QED
    BY <1>5, <1>6, <1>7

LEMMA NextInvariant == IInv /\ [Next]_vars => IInv'
  <1> SUFFICES ASSUME IInv, [Next]_vars PROVE TableIsLinked'
    BY TypeOKStep DEF IInv
  <1>1. ASSUME NEW type \in Places, get_pointer_type(type) PROVE TableIsLinked'
    <2>1. CASE pointer[type] # NULL
      <3>1. Holder(type)
        BY <1>1, ConstantFacts DEF get_pointer_type, IsUsable, Holder, Unfreed
      <3>2. pointer[type] \in live
        BY <3>1, <2>1 DEF IInv, TableIsLinked, Linked
      <3>3. in_use \subseteq live
        BY <1>1 DEF get_pointer_type, IInv, TableIsLinked, NothingFreedYet
      <3> QED
        BY <1>1, <2>1, <3>2, <3>3, MentionStep DEF get_pointer_type
    <2>2. CASE pointer[type] = NULL
      BY <1>1, <2>2, PointerStep DEF get_pointer_type
    <2> QED
      BY <2>1, <2>2
  <1>2. ASSUME NEW types \in SUBSET Places, create_struct(types) PROVE TableIsLinked'
    BY <1>2, StructStep DEF create_struct
  <1>3. CASE MentionStruct
    <2>1. in_use' \subseteq live
      BY <1>3 DEF MentionStruct, IInv, TableIsLinked, StructsWait, NothingFreedYet
    <2> QED
      BY <1>3, <2>1, MentionStep DEF MentionStruct
  <1>4. CASE free_type
    BY <1>4, FreeStep
  <1>5. CASE destroy_type_context
    BY <1>5, DestroyStep
  <1>6. CASE free_global_state
    BY <1>6, GlobalStep
  <1>7. CASE CompileDone \/ CompileFails \/ CodegenDone \/ GraphsFreed \/ ProgramRuns \/ Exited
    BY <1>7, StageStep
  <1>8. CASE UNCHANGED vars
    BY <1>8 DEF vars, table, IInv, TableIsLinked, Chained, Linked, CursorIsLoose, StructsWait,
        NothingFreedYet, Holder, Unfreed
  <1> QED
    BY <1>1, <1>2, <1>3, <1>4, <1>5, <1>6, <1>7, <1>8 DEF Next, Done

LEMMA Invariant == Spec => []IInv
  BY InitInvariant, NextInvariant, PTL DEF Spec
-----------------------------------------------------------------------------
\* Every step keeps the variables within their types.
THEOREM TypeCorrect == Spec => []TypeOK
  BY Invariant, PTL DEF IInv

\* However many pointers, pointers to pointers and structs a file asks for,
\* get_pointer_type never makes the same pointer type twice: where the
\* compiler compares two types it may compare their addresses.
THEOREM TypesAreAddresses == Spec => []PointerTypesAreUnique
  <1>1. IInv => PointerTypesAreUnique
    <2> SUFFICES ASSUME IInv, NEW p \in live, NEW q \in live,
                        kind[p] = "pointer", kind[q] = "pointer", valuetype[p] = valuetype[q]
                 PROVE  p = q
      BY DEF PointerTypesAreUnique
    <2> USE DEF IInv, TableIsLinked, Chained
    <2>1. CASE p # t /\ q # t
      BY <2>1
    <2>2. CASE p = t \/ q = t
      <3>1. t # NULL
        BY <2>2, ConstantFacts DEF TypeOK
      <3> QED
        BY <2>2, <3>1 DEF CursorIsLoose
    <2> QED
      BY <2>1, <2>2
  <1> QED
    BY <1>1, Invariant, PTL

\* free_type is never at a type that has been freed, in destroy_type_context
\* as little as at exit, whichever of them comes first.
THEOREM FreeingIsSafe == Spec => []NothingIsFreedTwice
  <1>1. IInv => NothingIsFreedTwice
    BY DEF IInv, TableIsLinked, CursorIsLoose, NothingIsFreedTwice
  <1> QED
    BY <1>1, Invariant, PTL

\* Whatever the graphs, signatures and structs mention is there, with all
\* it refers to, until codegen() has returned.
THEOREM TypesLiveLongEnough == Spec => []TypesOutliveTheirUse
  <1>1. IInv => TypesOutliveTheirUse
    <2> SUFFICES ASSUME IInv, stage \in {"compile", "codegen"},
                        NEW u \in in_use \cup {structs[i] : i \in DOMAIN structs}
                 PROVE  /\ u \in live
                        /\ kind[u] = "pointer" => IsUsable(valuetype[u])
                        /\ \A f \in fieldtypes[u] : IsUsable(f)
      BY DEF TypesOutliveTheirUse
    <2> USE DEF IInv, TypeOK, TableIsLinked
    <2>1. u \in live /\ u \in Addresses /\ t = NULL
      BY DEF StructsWait, NothingFreedYet, CursorIsLoose
    <2>2. kind[u] = "pointer" => Holder(valuetype[u])
      BY <2>1, ConstantFacts DEF Chained
    <2>3. \A f \in fieldtypes[u] : f \in live \cup Static
      BY <2>1 DEF NothingFreedYet
    <2> QED
      BY <2>1, <2>2, <2>3 DEF Holder, Unfreed, IsUsable
  <1> QED
    BY <1>1, Invariant, PTL
-----------------------------------------------------------------------------
(***************************************************************************)
(* That everything is freed in the end needs two more facts.  No set of    *)
(* pointers hangs on itself alone: a type that is there when all others    *)
(* have gone would be on a circle.  And structs are in the list            *)
(* destroy_type_context walks, or in the hands of free_type.               *)
(***************************************************************************)
NoCircles ==
    \A S \in SUBSET live : S # {} => \E p \in S : kind[p] = "struct" \/ valuetype[p] \notin S
StructsAreListed ==
    \A p \in live : kind[p] = "struct" /\ ~failed =>
        \/ p = t
        \/ /\ stage \in {"compile", "codegen", "destroy"}
           /\ \E i \in DOMAIN structs : structs[i] = p /\ (stage = "destroy" => i >= at)
NothingIsStranded == NoCircles /\ StructsAreListed

LEMMA PointerHangsOnOlder ==
  ASSUME IInv, NothingIsStranded, NEW type \in Places, get_pointer_type(type)
  PROVE  NothingIsStranded'
  <1>1. stage = "compile" /\ IsUsable(type) /\ UNCHANGED <<stage, structs, t, at, failed>>
    BY DEF get_pointer_type
  <1>2. t = NULL
    BY <1>1 DEF IInv, TableIsLinked, CursorIsLoose
  <1>3. CASE UNCHANGED table
    BY <1>1, <1>3 DEF table, NothingIsStranded, NoCircles, StructsAreListed
  <1>4. CASE ~UNCHANGED table
    <2>1. PICK result \in Addresses \ live :
            /\ live' = live \cup {result}
            /\ kind' = [kind EXCEPT ![result] = "pointer"]
            /\ valuetype' = [valuetype EXCEPT ![result] = type]
      BY <1>4 DEF get_pointer_type
    <2>2. /\ \A p \in live : kind'[p] = kind[p] /\ valuetype'[p] = valuetype[p]
          /\ kind'[result] = "pointer" /\ valuetype'[result] = type
      BY <2>1 DEF IInv, TypeOK
    <2>3. type # result
      BY <1>1, <2>1, ConstantFacts DEF IsUsable
    <2>4. \A p \in live : kind[p] # "struct" => valuetype[p] # result
      BY <1>2, <2>1, ConstantFacts DEF IInv, TypeOK, TableIsLinked, Chained, Holder, Unfreed
    <2>5. NoCircles'
      <3> SUFFICES ASSUME NEW S \in SUBSET live', S # {}
                   PROVE  \E p \in S : kind'[p] = "struct" \/ valuetype'[p] \notin S
        BY DEF NoCircles
      <3>1. CASE S \subseteq {result}
        BY <2>2, <2>3, <3>1
      <3>2. CASE ~(S \subseteq {result})
        <4>1. PICK R : R = S \ {result}
          OBVIOUS
        <4>2. R \in SUBSET live /\ R # {}
          BY <2>1, <3>2, <4>1
        <4>3. PICK p \in R : kind[p] = "struct" \/ valuetype[p] \notin R
          BY <4>2 DEF NothingIsStranded, NoCircles
        <4> QED
          BY <2>2, <2>4, <4>1, <4>2, <4>3
      <3> QED
        BY <3>1, <3>2
    <2>6. StructsAreListed'
      BY <1>1, <2>1, <2>2 DEF NothingIsStranded, StructsAreListed
    <2> QED
      BY <2>5, <2>6 DEF NothingIsStranded
  <1> QED
    BY <1>3, <1>4

LEMMA StructIsListed ==
  ASSUME IInv, NothingIsStranded, NEW types \in SUBSET Places, create_struct(types)
  PROVE  NothingIsStranded'
  <1>1. PICK result \in Addresses \ live :
          /\ live' = live \cup {result}
          /\ kind' = [kind EXCEPT ![result] = "struct"]
          /\ structs' = Append(structs, result)
    BY DEF create_struct
  <1>2. stage = "compile" /\ UNCHANGED <<stage, valuetype, t, at, failed>>
    BY DEF create_struct
  <1>3. /\ \A p \in live : kind'[p] = kind[p] /\ valuetype'[p] = valuetype[p]
        /\ kind'[result] = "struct"
    BY <1>1, <1>2 DEF IInv, TypeOK
  <1>4. NoCircles'
    <2> SUFFICES ASSUME NEW S \in SUBSET live', S # {}
                 PROVE  \E p \in S : kind'[p] = "struct" \/ valuetype'[p] \notin S
      BY DEF NoCircles
    <2>1. CASE result \in S
      BY <1>3, <2>1
    <2>2. CASE result \notin S
      <3>1. S \in SUBSET live
        BY <1>1, <2>2
      <3> QED
        BY <1>3, <3>1 DEF NothingIsStranded, NoCircles
    <2> QED
      BY <2>1, <2>2
  <1>5. structs \in Seq(Addresses)
    BY DEF IInv, TypeOK
  <1>6. /\ \A i \in DOMAIN structs : i \in DOMAIN structs' /\ structs'[i] = structs[i]
        /\ \E i \in DOMAIN structs' : structs'[i] = result
    BY <1>1, <1>5
  <1>7. StructsAreListed'
    BY <1>1, <1>2, <1>3, <1>6 DEF NothingIsStranded, StructsAreListed
  <1> QED
    BY <1>4, <1>7 DEF NothingIsStranded

LEMMA StrandedStep == IInv /\ NothingIsStranded /\ [Next]_vars => NothingIsStranded'
  <1> SUFFICES ASSUME IInv, NothingIsStranded, [Next]_vars PROVE NothingIsStranded'
    OBVIOUS
  <1>1. ASSUME NEW type \in Places, get_pointer_type(type) PROVE NothingIsStranded'
    BY <1>1, PointerHangsOnOlder
  <1>2. ASSUME NEW types \in SUBSET Places, create_struct(types) PROVE NothingIsStranded'
    BY <1>2, StructIsListed
  <1>3. CASE free_type
    <2>1. live' \subseteq live /\ live' = live \ {t} /\ UNCHANGED <<stage, kind, valuetype, structs, at, failed>>
      BY <1>3 DEF free_type
    <2>2. NoCircles'
      BY <2>1 DEF NothingIsStranded, NoCircles
    <2>3. StructsAreListed'
      BY <2>1 DEF NothingIsStranded, StructsAreListed
    <2> QED
      BY <2>2, <2>3 DEF NothingIsStranded
  <1>4. CASE destroy_type_context
    <2>1. /\ UNCHANGED <<stage, live, kind, valuetype, structs, failed>> /\ stage = "destroy"
          /\ t = NULL /\ t' = structs[at] /\ at' = at + 1
      BY <1>4 DEF destroy_type_context, table
    <2>2. NoCircles'
      BY <2>1 DEF NothingIsStranded, NoCircles
    <2>3. at \in Nat /\ \A i \in DOMAIN structs : i \in Nat
      BY DEF IInv, TypeOK
    <2>4. \A i \in DOMAIN structs : i >= at => i = at \/ i >= at'
      BY <2>1, <2>3
    <2>5. \A p \in live : p # NULL
      BY ConstantFacts DEF IInv, TypeOK
    <2>6. StructsAreListed'
      BY <2>1, <2>4, <2>5 DEF NothingIsStranded, StructsAreListed
    <2> QED
      BY <2>2, <2>6 DEF NothingIsStranded
  <1>5. CASE GraphsFreed
    <2>1. /\ UNCHANGED <<live, kind, valuetype, t, failed>> /\ stage = "destroy" /\ t = NULL
          /\ at > Len(structs)
      BY <1>5 DEF GraphsFreed, table
    <2>2. structs \in Seq(Addresses) /\ at \in Nat
      BY DEF IInv, TypeOK
    <2>3. \A i \in DOMAIN structs : ~(i >= at)
      BY <2>1, <2>2
    <2> QED
      BY <2>1, <2>3 DEF NothingIsStranded, NoCircles, StructsAreListed
  <1>6. CASE free_global_state
    <2>1. UNCHANGED <<stage, live, kind, valuetype, structs, failed>> /\ stage = "exit" /\ t = NULL
      BY <1>6 DEF free_global_state, table
    <2>2. \A p \in live : p # NULL
      BY ConstantFacts DEF IInv, TypeOK
    <2> QED
      BY <2>1, <2>2 DEF NothingIsStranded, NoCircles, StructsAreListed
  <1>7. CASE CompileDone \/ CodegenDone
    <2>1. at' = 1
      BY <1>7 DEF CompileDone, CodegenDone, IInv, TableIsLinked, NothingFreedYet
    <2>2. \A i \in DOMAIN structs : i >= 1
      BY DEF IInv, TypeOK
    <2> QED
      BY <1>7, <2>1, <2>2 DEF CompileDone, CodegenDone, table, NothingIsStranded, NoCircles, StructsAreListed
  <1>8. CASE MentionStruct \/ CompileFails \/ ProgramRuns \/ Exited \/ UNCHANGED vars
    BY <1>8 DEF MentionStruct, CompileFails, ProgramRuns, Exited, vars, table,
                NothingIsStranded, NoCircles, StructsAreListed
  <1> QED
    BY <1>1, <1>2, <1>3, <1>4, <1>5, <1>6, <1>7, <1>8 DEF Next, Done

\* When the process is over everything that was allocated is freed, except
\* for what hangs on structs if compilation stopped with an error.
THEOREM EverythingIsFreed == Spec => []NothingIsLeftBehind
  <1>1. Init => NothingIsStranded
    BY DEF Init, NothingIsStranded, NoCircles, StructsAreListed
  <1>2. IInv /\ NothingIsStranded => NothingIsLeftBehind
    <2> SUFFICES ASSUME IInv, NothingIsStranded, stage = "done", NEW type \in live
                 PROVE  failed /\ (kind[type] = "pointer" => valuetype[type] \in live)
      BY DEF NothingIsLeftBehind
    <2>1. t = NULL /\ \A p \in live : p # t
      BY ConstantFacts DEF IInv, TypeOK, TableIsLinked, CursorIsLoose
    <2>2. \A p \in live : kind[p] \in {"pointer", "struct"} /\ (kind[p] = "pointer" => valuetype[p] \in live)
      BY <2>1 DEF IInv, TableIsLinked, Chained, Holder, Unfreed
    <2>3. PICK p \in live : kind[p] = "struct" \/ valuetype[p] \notin live
      BY DEF NothingIsStranded, NoCircles
    <2>4. failed
      BY <2>1, <2>2, <2>3 DEF NothingIsStranded, StructsAreListed
    <2> QED
      BY <2>2, <2>4
  <1> QED
    BY <1>1, <1>2, StrandedStep, Invariant, PTL DEF Spec
=============================================================================
