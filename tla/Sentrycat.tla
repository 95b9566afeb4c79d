------------------------------- MODULE Sentrycat -------------------------------
(***************************************************************************)
(* sentrycat.py: sends one message, or every mail of an mbox or a maildir, *)
(* as an event to a sentry server, and removes the mails that were sent.   *)
(*                                                                         *)
(* The program keeps what it was called with in one dict, of which main    *)
(* takes keys away before it hands the rest to the senders.  A mail is     *)
(* what the loop over the mailbox stumbles over: whether it has a Date and *)
(* a Subject.  The mail server appends to an mbox that is not locked, and  *)
(* puts files into a maildir at any time.                                  *)
(***************************************************************************)
EXTENDS Naturals, Sequences, SequencesExt

CONSTANTS Id,         \* mails, in their order of arrival
          MaxFaults   \* bound: events the server does not take

VARIABLES mode,     \* which of the options was given
          box,      \* the mailbox on the disk
          arrived,  \* how many mails came so far
          keys,     \* keys of args
          locked,   \* the lock of the mbox
          pc, left, \* where the program is, and the mails of its loop
          marked,   \* mails sent, to be discarded after the loop
          seen,     \* the mailbox when it was opened
          events,   \* what the server took: mails, or the message 0
          faults, code

vars == <<mode, box, arrived, keys, locked, pc, left, marked, seen, events, faults, code>>
disk == <<mode, box, arrived, locked>>
net  == <<events, faults>>

Mail == [id : 1 .. Id, dated : BOOLEAN, titled : BOOLEAN]

Label == {"main", "open", "mail", "capture", "discard", "unlock", "flush", "close",
          "message", "exit"}

\* The mailbox holds mails that came, in their order; only an mbox is locked, and
\* only while it is read.
SentryTypeOK ==
  /\ \A i \in DOMAIN box : box[i] \in Mail /\ box[i].id <= arrived
  /\ \A i \in DOMAIN box : \A j \in 1 .. i - 1 : box[j].id < box[i].id
  /\ pc \in Label /\ faults \in 0 .. MaxFaults /\ code \in {"none", "ok", "failed"}
  /\ locked => mode = "mbox" /\ pc \in {"mail", "capture", "discard", "unlock", "close"}

--------------------------------------------------------------------------------
Init ==
  /\ mode \in {"mbox", "maildir", "message"}
  /\ box = <<>> /\ arrived = 0
  /\ keys = {"verbose", "logger", "level", "culprit", "server_name", "release", "extra",
             "tags", "request", "dsn", "message"}
  /\ locked = FALSE
  /\ pc = "main" /\ left = <<>> /\ marked = {} /\ seen = <<>>
  /\ events = <<>> /\ faults = 0 /\ code = "none"

\* A mail arrives.
Arrive ==
  /\ arrived < Id /\ ~locked
  /\ arrived' = arrived + 1
  /\ \E m \in Mail : m.id = arrived + 1 /\ box' = Append(box, m)
  /\ UNCHANGED <<mode, keys, locked, pc, left, marked, seen, net, code>>

\* main: options become settings of the client and of its scope.
Main ==
  /\ pc = "main"
  /\ keys' = keys \ {"dsn", "release", "server_name", "level", "extra", "tags"}
  /\ pc' = IF mode = "message" THEN "message" ELSE "open"
  /\ UNCHANGED <<disk, left, marked, seen, net, code>>

\* send_mbox, send_maildir
Open ==
  /\ pc = "open"
  /\ locked' = (mode = "mbox")
  /\ seen' = box /\ left' = box /\ pc' = "mail"
  /\ UNCHANGED <<mode, box, arrived, keys, marked, net, code>>

\* An exception: an mbox that holds mails is closed, and that unlocks it.
Raised ==
  /\ code' = "failed"
  /\ pc' = IF mode = "mbox" /\ seen # <<>> THEN "close" ELSE "exit"

\* parsedate of no Date, no Subject + text, margs["extra"] of no extra.
MailRaises(m) == ~m.dated \/ ~m.titled \/ "extra" \notin keys

ReadMail ==
  /\ pc = "mail" /\ left # <<>>
  /\ IF MailRaises(Head(left)) THEN Raised ELSE pc' = "capture" /\ UNCHANGED code
  /\ UNCHANGED <<disk, keys, left, marked, seen, net>>

\* send_message, for a mail
MailTaken ==
  /\ pc = "capture"
  /\ events' = Append(events, Head(left).id)
  /\ marked' = marked \cup {Head(left).id}
  /\ left' = Tail(left) /\ pc' = "mail"
  /\ UNCHANGED <<disk, keys, seen, faults, code>>

\* The text of the error asks for margs.message, and margs is a dict.
MailNotTaken ==
  /\ pc = "capture" /\ faults < MaxFaults
  /\ faults' = faults + 1
  /\ Raised
  /\ UNCHANGED <<disk, keys, left, marked, seen, events>>

LoopEnds ==
  /\ pc = "mail" /\ left = <<>>
  /\ pc' = "discard"
  /\ UNCHANGED <<disk, keys, left, marked, seen, net, code>>

Unsent(mails) == SelectSeq(mails, LAMBDA m : m.id \notin marked)

\* discard removes the file of a maildir; of an mbox it removes nothing yet.
Discard ==
  /\ pc = "discard"
  /\ IF mode = "maildir"
     THEN box' = Unsent(box) /\ pc' = "exit" /\ code' = "ok"
     ELSE pc' = "unlock" /\ UNCHANGED <<box, code>>
  /\ UNCHANGED <<mode, arrived, keys, locked, left, marked, seen, net>>

Unlock ==
  /\ pc = "unlock"
  /\ locked' = FALSE /\ pc' = "flush"
  /\ UNCHANGED <<mode, box, arrived, keys, left, marked, seen, net, code>>

\* flush writes the mbox again, without a lock, unless its size changed.
Flush ==
  /\ pc = "flush"
  /\ IF marked = {} \/ Len(box) = Len(seen)
     THEN box' = Unsent(box) /\ pc' = "close" /\ UNCHANGED code
     ELSE Raised /\ UNCHANGED box
  /\ UNCHANGED <<mode, arrived, keys, locked, left, marked, seen, net>>

Close ==
  /\ pc = "close"
  /\ locked' = FALSE /\ pc' = "exit"
  /\ code' = IF code = "none" THEN "ok" ELSE code
  /\ UNCHANGED <<mode, box, arrived, keys, left, marked, seen, net>>

\* One message: the exit status says whether the server took it; an empty one has
\* no first line.
Message ==
  /\ pc = "message"
  /\ \/ events' = Append(events, 0) /\ code' = "ok" /\ UNCHANGED faults
     \/ faults < MaxFaults /\ faults' = faults + 1 /\ code' = "failed" /\ UNCHANGED events
     \/ code' = "failed" /\ UNCHANGED net
  /\ pc' = "exit"
  /\ UNCHANGED <<disk, keys, left, marked, seen>>

Next ==
  \/ Arrive \/ Main \/ Open \/ ReadMail \/ MailTaken \/ MailNotTaken \/ LoopEnds
  \/ Discard \/ Unlock \/ Flush \/ Close \/ Message

Spec == Init /\ [][Next]_vars

--------------------------------------------------------------------------------
WellFormed(mails) == \A i \in DOMAIN mails : mails[i].dated /\ mails[i].titled

\* sentrycat.py:296 "mbox filename to parse and send all", and 302 for a maildir:
\* where every mail has its headers and the server takes every event, a run ends
\* with every mail of the mailbox sent.
AllMailsSent ==
  pc = "exit" /\ mode # "message" /\ faults = 0 /\ WellFormed(seen) =>
    \A i \in DOMAIN seen : Contains(events, seen[i].id)
================================================================================
