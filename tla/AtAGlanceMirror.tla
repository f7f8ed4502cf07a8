--------------------------- MODULE AtAGlanceMirror ---------------------------
(***************************************************************************)
(* What the kiosk's state handling promises, without sockets or JSON: the  *)
(* kiosk mirrors one machine of the server.  While a link is up and fed,   *)
(* every state the server takes is queued (pending) for the kiosk, and the *)
(* kiosk's mirror only ever moves forward through that queue, possibly     *)
(* skipping states, never back to an older one.  Its view is the view of   *)
(* the state it mirrors; closing the link marks the view offline and       *)
(* keeps the rest.  Before the kiosk has mirrored a state on a link, a     *)
(* newer server state may supersede the queued one (the first state the   *)
(* kiosk takes is the server's state when it answers, not when the link    *)
(* opened).  The server may refuse to feed a link.                         *)
(***************************************************************************)
EXTENDS Naturals, Sequences

CONSTANTS
    States,         \* the server's states of the machine
    Null,           \* no state mirrored on this link yet
    View(_),        \* what the kiosk shows for a mirrored state
    Offline(_),     \* the view after the link closes
    InitialView     \* what the kiosk shows before it has mirrored anything

VARIABLES
    server,         \* the server's current state
    link,           \* the link to the server is up
    feed,           \* the server sends this link its state and changes
    mirror,         \* the server state the kiosk last took on, this link
    pending,        \* later server states the kiosk may still take on
    view            \* what the kiosk shows

avars == <<server, link, feed, mirror, pending, view>>

AInit ==
    /\ server \in States
    /\ link = FALSE /\ feed = FALSE
    /\ mirror = Null /\ pending = <<>>
    /\ view = InitialView

\* The server's state changes; a fed link queues the new state, or, before
\* the kiosk mirrored anything, the new state replaces the queued one.
Change ==
    /\ \E n \in States \ {server} :
          /\ server' = n
          /\ IF feed
             THEN \/ pending' = Append(pending, n)
                  \/ mirror = Null /\ pending' = <<n>>
             ELSE UNCHANGED pending
    /\ UNCHANGED <<link, feed, mirror, view>>

Open ==
    /\ ~link
    /\ link' = TRUE /\ feed' = TRUE
    /\ pending' = <<server>>
    /\ UNCHANGED <<server, mirror, view>>

Close ==
    /\ link
    /\ link' = FALSE /\ feed' = FALSE
    /\ mirror' = Null /\ pending' = <<>>
    /\ view' = Offline(view)
    /\ UNCHANGED server

Refuse ==
    /\ feed /\ mirror = Null
    /\ feed' = FALSE /\ pending' = <<>>
    /\ UNCHANGED <<server, link, mirror, view>>

\* The kiosk takes on a queued state; the states queued before it are gone.
Sync ==
    /\ link
    /\ \E i \in 1..Len(pending) :
          /\ mirror' = pending[i]
          /\ pending' = SubSeq(pending, i + 1, Len(pending))
          /\ view' = View(pending[i])
    /\ UNCHANGED <<server, link, feed>>

ANext == Change \/ Open \/ Close \/ Refuse \/ Sync

\* A queued state is eventually taken on while the link stays up.
ASpec == AInit /\ [][ANext]_avars /\ WF_avars(Sync)
=============================================================================
