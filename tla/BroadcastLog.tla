---------------------------- MODULE BroadcastLog ----------------------------
(***************************************************************************)
(* What BroadcastChannel promises: all posts are in one log, and every     *)
(* open channel is given the entries for it that were posted after it was  *)
(* created, in the order of the log, each once, until it is closed.  The   *)
(* entries for a channel are those with its name that it did not post.     *)
(***************************************************************************)
EXTENDS Integers, Sequences

CONSTANTS Channels, Names, None

VARIABLES
  log,   \* the posts: who posted, under which name
  name,  \* the name of a channel, None before it is created
  open,  \* the channels that can post and receive
  pos    \* the last entry a channel was given

vars == <<log, name, open, pos>>

Entry == [from : Channels, name : Names]

For(c) == {i \in DOMAIN log : log[i].name = name[c] /\ log[i].from # c}
Ahead(c) == {i \in For(c) : i > pos[c]}

Init ==
  /\ log = <<>>
  /\ name = [c \in Channels |-> None]
  /\ open = {}
  /\ pos = [c \in Channels |-> 0]

Create(c, n) ==
  /\ name[c] = None
  /\ name' = [name EXCEPT ![c] = n]
  /\ open' = open \cup {c}
  /\ pos' = [pos EXCEPT ![c] = Len(log)]
  /\ UNCHANGED log

Post(c) ==
  /\ c \in open
  /\ log' = Append(log, [from |-> c, name |-> name[c]])
  /\ UNCHANGED <<name, open, pos>>

Deliver(c) ==
  /\ c \in open
  /\ \E i \in Ahead(c) :
       /\ \A j \in Ahead(c) : i <= j
       /\ pos' = [pos EXCEPT ![c] = i]
  /\ UNCHANGED <<log, name, open>>

Close(c) ==
  /\ c \in open
  /\ open' = open \ {c}
  /\ UNCHANGED <<log, name, pos>>

Next == \E c \in Channels :
  \/ \E n \in Names : Create(c, n)
  \/ Post(c) \/ Deliver(c) \/ Close(c)

Spec == Init /\ [][Next]_vars

=============================================================================
