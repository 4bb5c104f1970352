------------------------------- MODULE Types -------------------------------
(***************************************************************************)
(* types.c: the table of types and how long its entries live.  Two types   *)
(* are compared by comparing their addresses, so that "pointer to t" must  *)
(* be made once and kept in t's own entry.  The types with names in the    *)
(* language are in global_state; pointers to them are freed when the       *)
(* process exits, structs with the control flow graphs, both with all the  *)
(* pointers to pointers that hang on them.                                 *)
(***************************************************************************)
EXTENDS Naturals, Sequences, FiniteSets

CONSTANTS
    Addresses,      \* what calloc() may return for a struct TypeInfo
    Builtins,       \* the entries of global_state, in the order they are visited
    NULL,
    MaxStructs,     \* bound on the structs of a file
    MaxFields       \* and on the different types in one of them

Static == {Builtins[i] : i \in DOMAIN Builtins}
Places == Addresses \cup Static

ASSUME BuiltinsAssumption ==
    /\ Builtins \in Seq(Static)
    /\ \A i, j \in DOMAIN Builtins : Builtins[i] = Builtins[j] => i = j
ASSUME AddressesAssumption ==
    Addresses \cap Static = {} /\ NULL \notin Places /\ {MaxStructs, MaxFields} \subseteq Nat

VARIABLES
    stage,          \* where main() is
    live,           \* the addresses allocated and not freed
    kind,           \* Type.kind, of the types on the heap
    valuetype,      \* Type.data.valuetype, of pointers
    fieldtypes,     \* Type.data.structfields.types, as a set
    pointer,        \* TypeInfo.pointer
    structs,        \* TypeContext.structs
    in_use,         \* the types on the heap that graphs and signatures mention
    t,              \* the loop variable of free_type
    at,             \* the index in the loop around it
    failed          \* the process ends because of fail_with_error
table == <<live, kind, valuetype, fieldtypes, pointer>>
vars == <<stage, table, structs, in_use, t, at, failed>>

Stages == {"compile", "codegen", "destroy", "run", "exit", "done"}
IsUsable(type) == type \in live \cup Static

\* init_types() has run, tokens and tree are there.
Init ==
    /\ stage = "compile"
    /\ live = {}
    /\ kind = [a \in Addresses |-> NULL]
    /\ valuetype = [a \in Addresses |-> NULL]
    /\ fieldtypes = [a \in Addresses |-> {}]
    /\ pointer = [a \in Places |-> NULL]
    /\ structs = <<>>
    /\ in_use = {}
    /\ t = NULL
    /\ at = 1
    /\ failed = FALSE
-----------------------------------------------------------------------------
\* (mutant) A new type every time.
get_pointer_type_uncached(type) ==
    /\ stage = "compile"
    /\ IsUsable(type)
    /\ \E result \in Addresses \ live :
        /\ live' = live \cup {result}
        /\ kind' = [kind EXCEPT ![result] = "pointer"]
        /\ valuetype' = [valuetype EXCEPT ![result] = type]
        /\ pointer' = [pointer EXCEPT ![type] = result, ![result] = NULL]
        /\ in_use' = in_use \cup {result}
    /\ UNCHANGED <<stage, fieldtypes, structs, t, at, failed>>

get_pointer_type(type) ==
    /\ stage = "compile"
    /\ IsUsable(type)
    /\ IF pointer[type] # NULL
       THEN /\ in_use' = in_use \cup {pointer[type]}
            /\ UNCHANGED table
       ELSE \E result \in Addresses \ live :
                /\ live' = live \cup {result}
                /\ kind' = [kind EXCEPT ![result] = "pointer"]
                /\ valuetype' = [valuetype EXCEPT ![result] = type]
                /\ pointer' = [pointer EXCEPT ![type] = result, ![result] = NULL]
                /\ in_use' = in_use \cup {result}
                /\ UNCHANGED fieldtypes
    /\ UNCHANGED <<stage, structs, t, at, failed>>

\* The end of typecheck_struct: the types of the fields have been looked up.
create_struct(types) ==
    /\ stage = "compile"
    /\ Len(structs) < MaxStructs /\ Cardinality(types) <= MaxFields
    /\ \A type \in types : IsUsable(type)
    /\ \E result \in Addresses \ live :
        /\ live' = live \cup {result}
        /\ kind' = [kind EXCEPT ![result] = "struct"]
        /\ fieldtypes' = [fieldtypes EXCEPT ![result] = types]
        /\ pointer' = [pointer EXCEPT ![result] = NULL]
        /\ structs' = Append(structs, result)
    /\ UNCHANGED <<stage, valuetype, in_use, t, at, failed>>

\* A variable, an argument or a returned value of a struct's own type.
MentionStruct ==
    /\ stage = "compile"
    /\ \E i \in DOMAIN structs : in_use' = in_use \cup {structs[i]}
    /\ UNCHANGED <<stage, table, structs, t, at, failed>>

\* (mutant) The graphs are freed before codegen() reads them.
CompileDone_freed ==
    /\ stage = "compile"
    /\ stage' = "codegen"
    /\ live' = live \ {structs[i] : i \in DOMAIN structs}
    /\ UNCHANGED <<kind, valuetype, fieldtypes, pointer, structs, in_use, t, at, failed>>
\* The graphs are built and simplified.
CompileDone ==
    /\ stage = "compile"
    /\ stage' = "codegen"
    /\ UNCHANGED <<table, structs, in_use, t, at, failed>>

\* fail_with_error: exit() without freeing the graphs.
CompileFails ==
    /\ stage = "compile"
    /\ stage' = "exit"
    /\ failed' = TRUE
    /\ UNCHANGED <<table, structs, in_use, t, at>>

\* codegen() returns, and free_control_flow_graphs starts with
\* destroy_type_context.
CodegenDone ==
    /\ stage = "codegen"
    /\ stage' = "destroy"
    /\ at' = 1
    /\ UNCHANGED <<table, structs, in_use, t, failed>>
-----------------------------------------------------------------------------
\* One round of the loop in free_type.
\* (mutant) The loop stops after the type itself.
free_type_alone ==
    /\ t # NULL
    /\ live' = live \ {t}
    /\ t' = NULL
    /\ UNCHANGED <<stage, kind, valuetype, fieldtypes, pointer, structs, in_use, at, failed>>
\* (mutant) The next type is the value type.
free_type_backwards ==
    /\ t # NULL
    /\ live' = live \ {t}
    /\ t' = IF kind[t] = "pointer" THEN valuetype[t] ELSE pointer[t]
    /\ UNCHANGED <<stage, kind, valuetype, fieldtypes, pointer, structs, in_use, at, failed>>
\* (mutant) The types of the fields go with the struct.
free_type_with_fields ==
    /\ t # NULL
    /\ live' = live \ ({t} \cup fieldtypes[t])
    /\ t' = pointer[t]
    /\ UNCHANGED <<stage, kind, valuetype, fieldtypes, pointer, structs, in_use, at, failed>>
free_type ==
    /\ t # NULL
    /\ live' = live \ {t}
    /\ t' = pointer[t]
    /\ UNCHANGED <<stage, kind, valuetype, fieldtypes, pointer, structs, in_use, at, failed>>

\* destroy_type_context: free_type(structs[at])
destroy_type_context ==
    /\ stage = "destroy"
    /\ t = NULL
    /\ at <= Len(structs)
    /\ t' = structs[at]
    /\ at' = at + 1
    /\ UNCHANGED <<stage, table, structs, in_use, failed>>

\* The rest of free_control_flow_graphs: signatures and graphs go too.
GraphsFreed ==
    /\ stage = "destroy"
    /\ t = NULL
    /\ at > Len(structs)
    /\ stage' = "run"
    /\ structs' = <<>>
    /\ in_use' = {}
    /\ UNCHANGED <<table, t, at, failed>>

\* The compiled program runs, main() returns or the program calls exit().
ProgramRuns ==
    /\ stage = "run"
    /\ stage' = "exit"
    /\ at' = 1
    /\ UNCHANGED <<table, structs, in_use, t, failed>>

\* (mutant) The loop goes on before it counts.
free_global_state_uncounted ==
    /\ stage = "exit"
    /\ t = NULL
    /\ at <= Len(Builtins)
    /\ t' = pointer[Builtins[at]]
    /\ at' = IF t' = NULL THEN at ELSE at + 1
    /\ UNCHANGED <<stage, table, structs, in_use, failed>>
\* atexit: free_type(global_state....pointer)
free_global_state ==
    /\ stage = "exit"
    /\ t = NULL
    /\ at <= Len(Builtins)
    /\ t' = pointer[Builtins[at]]
    /\ at' = at + 1
    /\ UNCHANGED <<stage, table, structs, in_use, failed>>

Exited ==
    /\ stage = "exit"
    /\ t = NULL
    /\ at > Len(Builtins)
    /\ stage' = "done"
    /\ UNCHANGED <<table, structs, in_use, t, at, failed>>

Done == stage = "done" /\ UNCHANGED vars

Next ==
    \/ \E type \in Places : get_pointer_type(type)
    \/ \E types \in SUBSET Places : create_struct(types)
    \/ MentionStruct \/ CompileDone \/ CompileFails \/ CodegenDone
    \/ free_type \/ destroy_type_context \/ GraphsFreed
    \/ ProgramRuns \/ free_global_state \/ Exited \/ Done

\* A sequential program that only computes: it does not stop between steps.
\* Compilation ends because files do.
Spec == Init /\ [][Next]_vars /\ WF_vars(Next) /\ WF_vars(CompileDone \/ CompileFails)
-----------------------------------------------------------------------------
TypeOK ==
    /\ stage \in Stages
    /\ live \subseteq Addresses
    /\ kind \in [Addresses -> {"pointer", "struct", NULL}]
    /\ valuetype \in [Addresses -> Places \cup {NULL}]
    /\ fieldtypes \in [Addresses -> SUBSET Places]
    /\ pointer \in [Places -> Addresses \cup {NULL}]
    /\ structs \in Seq(Addresses)
    /\ in_use \subseteq Addresses
    /\ t \in Addresses \cup {NULL}
    /\ at \in Nat \ {0}
    /\ failed \in BOOLEAN

\* There are no two entries for the same pointer type, at no time: comparing
\* addresses is comparing types.
PointerTypesAreUnique ==
    \A p, q \in live :
        kind[p] = "pointer" /\ kind[q] = "pointer" /\ valuetype[p] = valuetype[q] => p = q

\* free_type is only ever at a type that is still allocated, whatever structs
\* and pointers to pointers there are, so that nothing is freed twice and the
\* next type is not read from freed memory.
NothingIsFreedTwice == t # NULL => t \in live

\* "result lives as long as t": until codegen is done, a type that a graph
\* mentions is there, with all that its entry refers to.
TypesOutliveTheirUse ==
    stage \in {"compile", "codegen"} =>
        \A u \in in_use \cup {structs[i] : i \in DOMAIN structs} :
            /\ u \in live
            /\ kind[u] = "pointer" => IsUsable(valuetype[u])
            /\ \A f \in fieldtypes[u] : IsUsable(f)

\* When the process has ended every type is freed, except for structs and what
\* hangs on them if there was an error.
NothingIsLeftBehind ==
    stage = "done" =>
        \A type \in live : failed /\ (kind[type] = "pointer" => valuetype[type] \in live)

\* The loops that free types end, and with them the process: the pointers
\* they follow never lead around in a circle.
ExitEnds == <>(stage = "done")
=============================================================================
