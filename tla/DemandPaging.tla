---------------------------- MODULE DemandPaging ----------------------------
(***************************************************************************)
(* What a memory management unit promises to those who use it: pages are   *)
(* in at most NumFrames frames, one each; an access is answered with the   *)
(* frame of its page; a page that is not in memory is loaded, at the cost  *)
(* of one disk access, into a free frame or, only when there is none, into *)
(* the frame of one other page, which costs a second disk access if that   *)
(* page was written.  Some pages, once in memory, stay there for ever; when *)
(* they fill it, an access to another page is a fault without an answer.   *)
(* There is no TLB here, no table and no policy.                           *)
(***************************************************************************)
EXTENDS Naturals

CONSTANTS
  Threads, Pages, NumFrames,
  Pinned        \* the pages that are never evicted

VARIABLES
  resident,            \* the frame of each page in memory
  dirty,               \* the pages in memory that were written
  hits, faults, disk,
  answers              \* the answers their callers have not used yet

vars == <<resident, dirty, hits, faults, disk, answers>>

Frames == 0 .. NumFrames - 1
In == DOMAIN resident
Free(f) == \A q \in In : resident[q] # f

Init ==
  /\ resident = [p \in {} |-> 0]
  /\ dirty = {} /\ answers = {}
  /\ hits = 0 /\ faults = 0 /\ disk = 0

Answer(t, p) ==
  /\ \A a \in answers : a.thread # t
  /\ answers' = answers \cup {[thread |-> t, vpn |-> p, frame |-> resident'[p]]}

Written(p, write) == IF write THEN {p} ELSE {}

Hit(t, p, write) ==
  /\ p \in In
  /\ dirty' = dirty \cup Written(p, write)
  /\ hits' = hits + 1
  /\ UNCHANGED <<resident, faults, disk>>
  /\ Answer(t, p)

Load(t, p, write) ==
  /\ p \notin In
  /\ \E f \in Frames :
       /\ Free(f)
       /\ resident' = [q \in In \cup {p} |-> IF q = p THEN f ELSE resident[q]]
  /\ dirty' = dirty \cup Written(p, write)
  /\ faults' = faults + 1 /\ disk' = disk + 1
  /\ UNCHANGED hits
  /\ Answer(t, p)

Replace(t, p, write) ==
  /\ p \notin In
  /\ \A f \in Frames : ~Free(f)
  /\ \E old \in In \ Pinned :
       /\ resident' = [q \in (In \ {old}) \cup {p} |->
                         IF q = p THEN resident[old] ELSE resident[q]]
       /\ dirty' = (dirty \ {old}) \cup Written(p, write)
       /\ disk' = disk + (IF old \in dirty THEN 2 ELSE 1)
  /\ faults' = faults + 1
  /\ UNCHANGED hits
  /\ Answer(t, p)

Refuse(p) ==
  /\ p \notin In
  /\ \A f \in Frames : ~Free(f)
  /\ In \subseteq Pinned
  /\ faults' = faults + 1 /\ disk' = disk + 1
  /\ UNCHANGED <<resident, dirty, hits, answers>>

Use(t) ==
  /\ \E a \in answers : a.thread = t /\ answers' = answers \ {a}
  /\ UNCHANGED <<resident, dirty, hits, faults, disk>>

Next ==
  \E t \in Threads :
    \/ Use(t)
    \/ \E p \in Pages, write \in BOOLEAN :
         Hit(t, p, write) \/ Load(t, p, write) \/ Replace(t, p, write)
    \/ \E p \in Pages : Refuse(p)

Spec == Init /\ [][Next]_vars
=============================================================================
