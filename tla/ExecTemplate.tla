----------------------------- MODULE ExecTemplate -----------------------------
(***************************************************************************)
(* The command templates of an exec policy: which parameters a request may *)
(* give an action, and the argument list they make of its template.        *)
(*                                                                         *)
(* virtio_bridge/exec_policy.py  ActionTemplate, ExecPolicy.resolve        *)
(*                                                                         *)
(* A template element is a sequence of pieces: literal texts and, where    *)
(* the source has "{name}", the name.  A parameter's value is the sequence *)
(* of its words, or NotText for a value that is no string; its length is   *)
(* counted in words.  An argument is the sequence of what it is made of.   *)
(***************************************************************************)
EXTENDS Naturals, Sequences, SequencesExt

CONSTANTS
  ParamNames,   \* the names that occur in braces
  NotText       \* a parameter value that is not a string

\* Entries of the policy file have the fields of ActionTemplate: name, level,
\* cmd, params (specifications by name) and dirs, the directories that its
\* working_dirs match, none meaning any.

Pieces(t) == UNION {ToSet(part) : part \in ToSet(t.cmd)}

ReferencedParams(t) == Pieces(t) \cap ParamNames

IsWhole(part) == Len(part) = 1 /\ part[1] \in ParamNames

IsWholeElementParam(t, name) == <<name>> \in ToSet(t.cmd)

\* params.get(name, {}): type "string" and no other demands.
NoDemands == [string |-> TRUE, max_length |-> 0, enum |-> {}, split |-> FALSE]

Demands(t, name) == IF name \in DOMAIN t.params THEN t.params[name] ELSE NoDemands

\* A maximum length of zero and an empty enumeration count as absent.
Accepts(t, name, value) ==
  LET spec == Demands(t, name)
  IN /\ spec.string => value # NotText
     /\ spec.max_length > 0 /\ value # NotText => Len(value) <= spec.max_length
     /\ spec.enum # {} => value \in spec.enum
     /\ spec.split => IsWholeElementParam(t, name)

\* validate_params finds nothing to complain of.
ValidParams(t, provided) ==
  /\ ReferencedParams(t) \subseteq DOMAIN provided
  /\ DOMAIN provided \subseteq DOMAIN t.params \cup ReferencedParams(t)
  /\ \A n \in DOMAIN provided : Accepts(t, n, provided[n])

\* build_command raises: split and re.sub want a string.
CannotBuild(t, params) ==
  \E part \in ToSet(t.cmd) : \E n \in ToSet(part) \cap ParamNames :
    params[n] = NotText /\ (IsWhole(part) => Demands(t, n).split)

Substitute(part, params) ==
  FlattenSeq([i \in DOMAIN part |->
                IF part[i] \in ParamNames THEN params[part[i]] ELSE <<part[i]>>])

\* Mutation: a value is split wherever its specification says so or not.
ArgumentsAllSplit(t, part, params) ==
  IF IsWhole(part) /\ params[part[1]] # NotText
  THEN [i \in DOMAIN params[part[1]] |-> <<params[part[1]][i]>>]
  ELSE <<Substitute(part, params)>>

\* What one element of the template contributes to the argument list.
Arguments(t, part, params) ==
  IF IsWhole(part)
  THEN LET value == params[part[1]]
       IN IF Demands(t, part[1]).split
          THEN [i \in DOMAIN value |-> <<value[i]>>]
          ELSE <<value>>
  ELSE <<Substitute(part, params)>>

BuildCommand(t, params) ==
  FlattenSeq([i \in DOMAIN t.cmd |-> Arguments(t, t.cmd[i], params)])

\* " ".join(cmd_list), which _handle_exec logs, wants strings only.
CanBeShown(cmd) == NotText \notin ToSet(cmd)

-----------------------------------------------------------------------------
(* The reference: what an argument list must be to fill a template, by     *)
(* where each element of the template, and each of its pieces, is found.   *)

\* Where sequences of these lengths begin, less one, if they follow one
\* another; and where the last one ends.
Offsets(lengths) ==
  LET before[i \in 1..(Len(lengths) + 1)] ==
        IF i = 1 THEN 0 ELSE before[i - 1] + lengths[i - 1]
  IN before

\* A text has the pieces of a template element in their order and nothing
\* else: literals as they stand, placeholders as their values.
HasPieces(text, part, params) ==
  LET value(k) == IF part[k] \in ParamNames THEN params[part[k]] ELSE <<part[k]>>
      at == Offsets([k \in DOMAIN part |-> Len(value(k))])
  IN /\ Len(text) = at[Len(part) + 1]
     /\ \A k \in DOMAIN part : \A j \in DOMAIN value(k) : text[at[k] + j] = value(k)[j]

\* How many arguments an element of the template stands for.
Width(t, params, part) ==
  IF IsWhole(part) /\ Demands(t, part[1]).split THEN Len(params[part[1]]) ELSE 1

\* An argument list has the elements of a template in their order and nothing
\* else: a whole placeholder is its value or the value's words, one each.
Fills(cmd, t, params) ==
  LET at == Offsets([i \in DOMAIN t.cmd |-> Width(t, params, t.cmd[i])])
  IN /\ Len(cmd) = at[Len(t.cmd) + 1]
     /\ \A i \in DOMAIN t.cmd :
          LET part == t.cmd[i]
          IN CASE IsWhole(part) /\ Demands(t, part[1]).split ->
                    \A j \in DOMAIN params[part[1]] : cmd[at[i] + j] = <<params[part[1]][j]>>
               [] IsWhole(part) /\ ~Demands(t, part[1]).split -> cmd[at[i] + 1] = params[part[1]]
               [] ~IsWhole(part) -> HasPieces(cmd[at[i] + 1], part, params)
=============================================================================
