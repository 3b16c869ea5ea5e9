------------------------------ MODULE AsyncPort ------------------------------
(***************************************************************************)
(* The one-place port of common/async_port.h, between one thread that puts *)
(* objects and one that looks at the newest of them at its own pace.  The  *)
(* only shared word is the atomic pointer buf: each side takes what is     *)
(* there with an exchange and only afterwards deletes what it is rid of.   *)
(*                                                                         *)
(* Objects are numbered in the order they are put; 0 is Null.  The reader  *)
(* keeps using the object get returned until it calls get again.           *)
(***************************************************************************)
EXTENDS Naturals

CONSTANT MaxObjects   \* bound: objects put

ASSUME PortAssumption == MaxObjects \in Nat

VARIABLES buf,         \* the atomic pointer
          readbuf,     \* the reading side's object
          old_value,   \* what put displaced and has to delete
          new_value,   \* what get took
          putting,     \* between the exchange and the delete in put
          getting,     \* between the exchange and the return in get
          created,     \* objects put so far
          freed        \* the objects deleted

port == <<buf, readbuf, old_value, new_value, putting, getting, created, freed>>

Objects == 1 .. MaxObjects
Null == 0

PortInit ==
    /\ buf = Null
    /\ readbuf = Null
    /\ old_value = Null
    /\ new_value = Null
    /\ putting = FALSE
    /\ getting = FALSE
    /\ created = 0
    /\ freed = {}

(* put up to its exchange, with a new object *)
Put ==
    /\ ~putting
    /\ created < MaxObjects
    /\ created' = created + 1
    /\ old_value' = buf
    /\ buf' = created + 1
    /\ putting' = TRUE
    /\ UNCHANGED <<readbuf, new_value, getting, freed>>

PutReturns ==
    /\ putting
    /\ freed' = IF old_value # Null THEN freed \cup {old_value} ELSE freed
    /\ old_value' = Null
    /\ putting' = FALSE
    /\ UNCHANGED <<buf, readbuf, new_value, getting, created>>

(* Mutant of Get: the pointer is read and left in place. *)
GetWithoutExchange ==
    /\ ~getting
    /\ new_value' = buf
    /\ getting' = TRUE
    /\ UNCHANGED <<buf, readbuf, old_value, putting, created, freed>>

(* get up to its exchange *)
Get ==
    /\ ~getting
    /\ new_value' = buf
    /\ buf' = Null
    /\ getting' = TRUE
    /\ UNCHANGED <<readbuf, old_value, putting, created, freed>>

(* delete of a null readbuf does nothing *)
GetReturns ==
    /\ getting
    /\ \/ /\ new_value # Null
          /\ freed' = IF readbuf # Null THEN freed \cup {readbuf} ELSE freed
          /\ readbuf' = new_value
       \/ /\ new_value = Null
          /\ UNCHANGED <<freed, readbuf>>
    /\ new_value' = Null
    /\ getting' = FALSE
    /\ UNCHANGED <<buf, old_value, putting, created>>

PortNext == Put \/ PutReturns \/ Get \/ GetReturns

PortSpec == PortInit /\ [][PortNext]_port

-----------------------------------------------------------------------------
(* Properties *)

FlagsOK == putting \in BOOLEAN /\ getting \in BOOLEAN

PointersOK ==
    /\ buf \in 0 .. created
    /\ readbuf \in 0 .. created
    /\ old_value \in 0 .. created
    /\ new_value \in 0 .. created
    /\ created \in 0 .. MaxObjects
    /\ freed \subseteq 1 .. created

PortTypeOK == FlagsOK /\ PointersOK

(***************************************************************************)
(* "a pointer in the read side of the port cannot be deleted except by     *)
(* another read" (async_port.h:48-49), and no object leaks: whatever the   *)
(* interleaving of the two exchanges and the two deletes, every object is  *)
(* held in exactly one place until it is deleted, and in none afterwards.  *)
(***************************************************************************)
PortHolders(o) ==
    {p \in {"buf", "readbuf", "put", "get"} :
        \/ p = "buf" /\ buf = o
        \/ p = "readbuf" /\ readbuf = o
        \/ p = "put" /\ old_value = o
        \/ p = "get" /\ new_value = o}

HeldOnce ==
    \A o \in 1 .. created :
        /\ o \in freed <=> PortHolders(o) = {}
        /\ \A p, q \in PortHolders(o) : p = q

(***************************************************************************)
(* The reader never goes back: what it holds is older than what it is      *)
(* taking, and that is older than what waits in buf.                       *)
(***************************************************************************)
NewestLast ==
    /\ new_value # Null => readbuf < new_value
    /\ buf # Null => readbuf < buf /\ new_value < buf

(***************************************************************************)
(* What the port owes its users: none of its pictures is lost, deleted     *)
(* twice or deleted in use, and none is seen after a newer one.            *)
(***************************************************************************)
PortKeepsPictures == HeldOnce /\ NewestLast
==============================================================================
