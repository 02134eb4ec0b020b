----------------------------- MODULE Directory -----------------------------
(***************************************************************************)
(* What the name server promises: a directory of limited size, in which a  *)
(* name belongs to the task that registered it last.  Each call takes      *)
(* effect at once, at some moment between its start and its answer.        *)
(***************************************************************************)
EXTENDS Integers, FiniteSets

CONSTANTS
  Clients,      \* the tasks that call
  Names,        \* what they ask about
  ROOM          \* how many names the directory takes

NoAnswer  == -2
Unknown   == -1
NotRunning == -3

VARIABLES
  entries,      \* the names that are registered and their tasks
  command,      \* the call that each client is in: "R", "W" or "none"
  about,        \* the name that it passed
  value,        \* what it will be answered, once it has taken effect
  result        \* what its last call returned

vars == <<entries, command, about, value, result>>

Answers == Clients \cup {NoAnswer, Unknown, NotRunning}

Entry(n, c) == [name |-> n, tid |-> c]
Registered(n) == {e \in entries : e.name = n}

Init ==
  /\ entries = {}
  /\ command = [c \in Clients |-> "none"]
  /\ about = [c \in Clients |-> CHOOSE n \in Names : TRUE]
  /\ value = [c \in Clients |-> NoAnswer]
  /\ result = [c \in Clients |-> NoAnswer]

Ask(c, cmd, n) ==
  /\ command[c] = "none"
  /\ command' = [command EXCEPT ![c] = cmd]
  /\ about' = [about EXCEPT ![c] = n]
  /\ result' = [result EXCEPT ![c] = NoAnswer]
  /\ UNCHANGED <<entries, value>>

\* A call that comes before there is a directory.
TooEarly(c) ==
  /\ command[c] = "none"
  /\ result' = [result EXCEPT ![c] = NotRunning]
  /\ UNCHANGED <<entries, command, about, value>>

\* The name is the caller's from now on, if there is room for it; nothing is
\* promised about the answer.
Register(c) ==
  /\ command[c] = "R" /\ value[c] = NoAnswer
  /\ IF Registered(about[c]) # {} \/ Cardinality(entries) < ROOM
     THEN entries' = (entries \ Registered(about[c])) \cup {Entry(about[c], c)}
     ELSE UNCHANGED entries
  /\ value' = [value EXCEPT ![c] = Unknown]
  /\ UNCHANGED <<command, about, result>>

\* The task that the name belongs to.
LookUp(c) ==
  /\ command[c] = "W" /\ value[c] = NoAnswer
  /\ \E v \in Clients \cup {Unknown} :
       /\ IF Registered(about[c]) = {} THEN v = Unknown ELSE Entry(about[c], v) \in entries
       /\ value' = [value EXCEPT ![c] = v]
  /\ UNCHANGED <<entries, command, about, result>>

Answer(c) ==
  /\ command[c] # "none" /\ value[c] # NoAnswer
  /\ result' = [result EXCEPT ![c] = value[c]]
  /\ value' = [value EXCEPT ![c] = NoAnswer]
  /\ command' = [command EXCEPT ![c] = "none"]
  /\ UNCHANGED <<entries, about>>

Next ==
  \E c \in Clients :
    \/ \E cmd \in {"R", "W"}, n \in Names : Ask(c, cmd, n)
    \/ TooEarly(c) \/ Register(c) \/ LookUp(c) \/ Answer(c)

Spec == Init /\ [][Next]_vars
=============================================================================
