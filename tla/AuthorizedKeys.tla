--------------------------- MODULE AuthorizedKeys ---------------------------
(***************************************************************************)
(* Who edits ~/.ssh/authorized_keys in an sshnpd daemon, and how the edits *)
(* interleave at their awaits.                                             *)
(*                                                                         *)
(*  - startDirectSsh adds an ephemeral key for its session                 *)
(*    (LocalSshKeyUtil.authorizePublicKey) and, once the client was told,  *)
(*    leaves it to a timer to remove it (deauthorizeAfter, whose timer     *)
(*    calls deauthorizePublicKey);                                         *)
(*  - stop() removes at once what still awaits removal;                    *)
(*  - an sshpublickey notification appends a client's own public key       *)
(*    (_handlePublicKeyNotification).                                      *)
(*                                                                         *)
(* The first two take the lock of _editAuthorizedKeys, the third does not. *)
(* The file is a sequence of lines, a line the sequence of the entries on  *)
(* it (two, when one was appended to a line that had no newline yet).      *)
(* Any read or write may throw.  A write that throws may have put nothing, *)
(* part or all of its text into the file, and the one that writes the file *)
(* back truncates it first.                                                *)
(***************************************************************************)
EXTENDS Integers, Sequences, FiniteSets, SequencesExt

CONSTANTS
    Sessions,   \* sessions startDirectSsh is called for
    PubKeys,    \* public keys that arrive by sshpublickey notifications
    UserKey,    \* an entry the user put there before
    Fragment,   \* what is left of an entry that was written in part
    IOFails     \* whether a read or write of the file may throw

ASSUME AuthorizedKeysAssumption ==
    /\ Sessions \cap PubKeys = {}
    /\ UserKey \notin Sessions \cup PubKeys
    /\ Fragment \notin Sessions \cup PubKeys \cup {UserKey}
    /\ IOFails \in BOOLEAN

\* A session's ephemeral entry is named by the session: deauthorizePublicKey
\* finds it by its trailing " sshnp_ephemeral_<sessionId>".
Entries == Sessions \cup PubKeys \cup {UserKey, Fragment}

VARIABLES
    lines,         \* the lines of authorized_keys
    newline,       \* whether the file ends in a newline
    lock,          \* _authorizedKeysLocks: the holder, then those who wait
    startPc,            \* session -> where its startDirectSsh has got to
    edit,          \* session -> where its deauthorizePublicKey has got to
    read,          \* session -> the lines an edit has read
    pending,       \* _pendingDeauthorizations
    keyPc,         \* public key -> where its handler has got to
    stopPc,        \* where stop() has got to
    stopWaitsFor   \* the deauthorizations stop() waits for

file == <<lines, newline>>
keysVars == <<lines, newline, lock, startPc, edit, read, pending, keyPc, stopPc,
              stopWaitsFor>>

KeysTypeOK ==
    /\ lines \in Seq(Seq(Entries))
    /\ newline \in BOOLEAN
    /\ lock \in Seq([who : Sessions, op : {"authorize", "deauthorize"}])
    /\ IsInjective(lock)
    /\ startPc \in [Sessions -> {"idle", "locking", "read", "appending", "notifying",
                                 "started", "failed"}]
    /\ edit \in [Sessions -> {"none", "locking", "read", "written", "done",
                              "failed", "torn"}]
    /\ read \in [Sessions -> Seq(Seq(Entries))]
    /\ pending \in SUBSET Sessions
    /\ keyPc \in [PubKeys -> {"idle", "read", "done", "refused"}]
    /\ stopPc \in {"running", "cancelling", "waiting", "stopped"}
    /\ stopWaitsFor \in SUBSET Sessions

\* The user's own line, which an editor may have left without a newline.
KeysInit ==
    /\ lines = <<<<UserKey>>>>
    /\ newline \in BOOLEAN
    /\ lock = <<>>
    /\ startPc = [s \in Sessions |-> "idle"]
    /\ edit = [s \in Sessions |-> "none"]
    /\ read = [s \in Sessions |-> <<>>]
    /\ pending = {}
    /\ keyPc = [p \in PubKeys |-> "idle"]
    /\ stopPc = "running"
    /\ stopWaitsFor = {}

-----------------------------------------------------------------------------
(* The file *)

InFile(e) == \E i \in 1..Len(lines) : e \in ToSet(lines[i])

\* What text appended to the file's end does: it starts a line only if the
\* file ends in a newline (or is empty).
AppendEntry(e) ==
    IF newline \/ lines = <<>>
    THEN Append(lines, <<e>>)
    ELSE [lines EXCEPT ![Len(lines)] = Append(@, e)]

\* A newline ends the last line, or adds a blank one.
AppendNewline ==
    /\ lines' = IF newline \/ lines = <<>> THEN Append(lines, <<>>) ELSE lines
    /\ newline' = TRUE

-----------------------------------------------------------------------------
(* _editAuthorizedKeys: Mutex.protect, first come first served *)

Holds(s, op) == lock # <<>> /\ Head(lock) = [who |-> s, op |-> op]
Enqueue(s, op) == lock' = Append(lock, [who |-> s, op |-> op])
Release == lock' = Tail(lock)

-----------------------------------------------------------------------------
(* startDirectSsh, from authorizePublicKey on.  A request that arrived before *)
(* stop() may get here after it.                                              *)

StartDirectSsh(s) ==
    /\ startPc[s] = "idle"
    /\ startPc' = [startPc EXCEPT ![s] = "locking"]
    /\ Enqueue(s, "authorize")
    /\ UNCHANGED <<file, edit, read, pending, keyPc, stopPc, stopWaitsFor>>

AuthorizeRead(s) ==
    /\ startPc[s] = "locking"
    /\ Holds(s, "authorize")
    /\ startPc' = [startPc EXCEPT ![s] = IF newline THEN "appending" ELSE "read"]
    /\ UNCHANGED <<file, lock, edit, read, pending, keyPc, stopPc, stopWaitsFor>>

AuthorizeNewline(s) ==
    /\ startPc[s] = "read"
    /\ AppendNewline
    /\ startPc' = [startPc EXCEPT ![s] = "appending"]
    /\ UNCHANGED <<lock, edit, read, pending, keyPc, stopPc, stopWaitsFor>>

\* The key was generated for this session, so the file does not contain it.
AuthorizeAppend(s) ==
    /\ startPc[s] = "appending"
    /\ lines' = AppendEntry(s)
    /\ newline' = TRUE
    /\ Release
    /\ startPc' = [startPc EXCEPT ![s] = "notifying"]
    /\ UNCHANGED <<edit, read, pending, keyPc, stopPc, stopWaitsFor>>

\* readAsString or a writeAsString throws; so does startDirectSsh.
AuthorizeThrows(s) ==
    /\ IOFails
    /\ startPc[s] \in {"locking", "read", "appending"}
    /\ Holds(s, "authorize")
    /\ \/ UNCHANGED file
       \/ startPc[s] = "read" /\ AppendNewline
       \/ /\ startPc[s] = "appending"
          /\ \E e \in {s, Fragment} : lines' = AppendEntry(e) /\ newline' \in {FALSE, e = s}
    /\ Release
    /\ startPc' = [startPc EXCEPT ![s] = "failed"]
    /\ UNCHANGED <<edit, read, pending, keyPc, stopPc, stopWaitsFor>>

\* The client is told, and deauthorizeAfter notes the session and starts its
\* timer.
Notified(s) ==
    /\ startPc[s] = "notifying"
    /\ startPc' = [startPc EXCEPT ![s] = "started"]
    /\ pending' = pending \cup {s}
    /\ UNCHANGED <<file, lock, edit, read, keyPc, stopPc, stopWaitsFor>>

\* Signing the response or sending it throws; so does startDirectSsh.
NotifyThrows(s) ==
    /\ startPc[s] = "notifying"
    /\ startPc' = [startPc EXCEPT ![s] = "failed"]
    /\ UNCHANGED <<file, lock, edit, read, pending, keyPc, stopPc, stopWaitsFor>>

-----------------------------------------------------------------------------
(* deauthorizeAfter's timer and deauthorizePublicKey *)

\* Stop cancels the timers of those it takes over.
TimerFires(s) ==
    /\ s \in pending
    /\ pending' = pending \ {s}
    /\ Enqueue(s, "deauthorize")
    /\ edit' = [edit EXCEPT ![s] = "locking"]
    /\ UNCHANGED <<file, startPc, read, keyPc, stopPc, stopWaitsFor>>

\* Mutant: the file is read before the lock is taken.
ReadOutsideLock(s) ==
    /\ edit[s] = "locking"
    /\ read' = [read EXCEPT ![s] = lines]
    /\ edit' = [edit EXCEPT ![s] = "read"]
    /\ UNCHANGED <<file, lock, startPc, pending, keyPc, stopPc, stopWaitsFor>>

DeauthorizeRead(s) ==
    /\ edit[s] = "locking"
    /\ Holds(s, "deauthorize")
    /\ read' = [read EXCEPT ![s] = lines]
    /\ edit' = [edit EXCEPT ![s] = "read"]
    /\ UNCHANGED <<file, lock, startPc, pending, keyPc, stopPc, stopWaitsFor>>

IsEphemeralOf(line, s) == line # <<>> /\ Last(line) = s

\* The listing of a finite set of numbers in increasing order.
InOrder(S) ==
    {at \in Bijection(1..Cardinality(S), S) :
        \A i, j \in 1..Cardinality(S) : i < j => at[i] < at[j]}

\* What was read without the lines that end in the session's mark.
WrittenBack(s) ==
    LET kept == {i \in DOMAIN read[s] : ~IsEphemeralOf(read[s][i], s)}
    IN  {[i \in DOMAIN at |-> read[s][at[i]]] : at \in InOrder(kept)}

\* writeAsString(lines.join('\n')): the file is truncated and written back.
DeauthorizeWrite(s) ==
    /\ edit[s] = "read"
    /\ lines' \in WrittenBack(s)
    /\ newline' = FALSE
    /\ edit' = [edit EXCEPT ![s] = "written"]
    /\ UNCHANGED <<lock, startPc, read, pending, keyPc, stopPc, stopWaitsFor>>

DeauthorizeNewline(s) ==
    /\ edit[s] = "written"
    /\ AppendNewline
    /\ Release
    /\ edit' = [edit EXCEPT ![s] = "done"]
    /\ read' = [read EXCEPT ![s] = <<>>]
    /\ UNCHANGED <<startPc, pending, keyPc, stopPc, stopWaitsFor>>

\* A write-back that throws leaves any beginning of its text: the first lines,
\* with or without the newline behind them, or with part of the next one.
Torn(s) ==
    \E w \in WrittenBack(s) : \E n \in 0..Len(w) :
        \/ lines' = SubSeq(w, 1, n) /\ newline' \in {FALSE, 0 < n /\ n < Len(w)}
        \/ n < Len(w) /\ lines' = Append(SubSeq(w, 1, n), <<Fragment>>) /\ newline' = FALSE

\* readAsLines, opening the file or a writeAsString throws; the caller of
\* deauthorizePublicKey, _trackDeauthorization, logs it.
DeauthorizeThrows(s) ==
    /\ IOFails
    /\ edit[s] \in {"locking", "read", "written"}
    /\ Holds(s, "deauthorize")
    /\ \/ /\ UNCHANGED file \/ (edit[s] = "written" /\ AppendNewline)
          /\ edit' = [edit EXCEPT ![s] = "failed"]
       \/ /\ edit[s] = "read" /\ Torn(s)
          /\ edit' = [edit EXCEPT ![s] = "torn"]
    /\ Release
    /\ read' = [read EXCEPT ![s] = <<>>]
    /\ UNCHANGED <<startPc, pending, keyPc, stopPc, stopWaitsFor>>

-----------------------------------------------------------------------------
(* _handlePublicKeyNotification, with addSshPublicKeys *)

PublicKeyRead(p) ==
    /\ keyPc[p] = "idle"
    /\ keyPc' = [keyPc EXCEPT ![p] = IF InFile(p) THEN "done" ELSE "read"]
    /\ UNCHANGED <<file, lock, startPc, edit, read, pending, stopPc, stopWaitsFor>>

\* The feature is off, the value is no public key, or the read throws.
PublicKeyRefused(p) ==
    /\ keyPc[p] = "idle"
    /\ keyPc' = [keyPc EXCEPT ![p] = "refused"]
    /\ UNCHANGED <<file, lock, startPc, edit, read, pending, stopPc, stopWaitsFor>>

\* writeAsStringSync.  The key comes from AtSshKeyPair.publicKeyContents and
\* has no newline.
PublicKeyAppend(p) ==
    /\ keyPc[p] = "read"
    /\ lines' = AppendEntry(p)
    /\ newline' = FALSE
    /\ keyPc' = [keyPc EXCEPT ![p] = "done"]
    /\ UNCHANGED <<lock, startPc, edit, read, pending, stopPc, stopWaitsFor>>

\* writeAsStringSync throws.
PublicKeyThrows(p) ==
    /\ IOFails
    /\ keyPc[p] = "read"
    /\ \/ UNCHANGED file
       \/ lines' = AppendEntry(Fragment) /\ newline' = FALSE
    /\ keyPc' = [keyPc EXCEPT ![p] = "done"]
    /\ UNCHANGED <<lock, startPc, edit, read, pending, stopPc, stopWaitsFor>>

-----------------------------------------------------------------------------
(* stop *)

\* From the first line to the subscriptions' cancellation, which is awaited.
StopBegins ==
    /\ stopPc = "running"
    /\ stopPc' = "cancelling"
    /\ UNCHANGED <<file, lock, startPc, edit, read, pending, keyPc, stopWaitsFor>>

Deauthorizing == {s \in Sessions : edit[s] \in {"locking", "read", "written"}}


\* Everything pending is deauthorized now, and stop waits for all that is
\* being deauthorized.
StopDeauthorizes ==
    /\ stopPc = "cancelling"
    /\ stopPc' = "waiting"
    /\ pending' = {}
    /\ edit' = [s \in Sessions |-> IF s \in pending THEN "locking" ELSE edit[s]]
    /\ \E order \in Bijection(1..Cardinality(pending), pending) :
          lock' = lock \o [i \in 1..Cardinality(pending) |->
                              [who |-> order[i], op |-> "deauthorize"]]
    /\ stopWaitsFor' = Deauthorizing \cup pending
    /\ UNCHANGED <<file, startPc, read, keyPc>>

StopReturns ==
    /\ stopPc = "waiting"
    /\ stopWaitsFor \cap Deauthorizing = {}
    /\ stopPc' = "stopped"
    /\ UNCHANGED <<file, lock, startPc, edit, read, pending, keyPc, stopWaitsFor>>

-----------------------------------------------------------------------------
Starting(s) ==
    \/ StartDirectSsh(s)
    \/ AuthorizeRead(s)
    \/ AuthorizeNewline(s)
    \/ AuthorizeAppend(s)
    \/ AuthorizeThrows(s)
    \/ Notified(s)
    \/ NotifyThrows(s)

Removing(s) ==
    \/ TimerFires(s)
    \/ DeauthorizeRead(s)
    \/ DeauthorizeWrite(s)
    \/ DeauthorizeNewline(s)
    \/ DeauthorizeThrows(s)

HandlingPublicKey(p) ==
    \/ PublicKeyRead(p)
    \/ PublicKeyRefused(p)
    \/ PublicKeyAppend(p)
    \/ PublicKeyThrows(p)

Stopping == StopBegins \/ StopDeauthorizes \/ StopReturns

KeysNext ==
    \/ \E s \in Sessions : Starting(s) \/ Removing(s)
    \/ \E p \in PubKeys : HandlingPublicKey(p)
    \/ Stopping

KeysSpec == KeysInit /\ [][KeysNext]_keysVars

\* File operations, notify and cancel complete, with or without success, and
\* timers fire.  Nothing makes a request arrive or stop() be called.
KeysFairness ==
    /\ \A s \in Sessions :
          /\ WF_keysVars(Removing(s))
          /\ WF_keysVars(Starting(s) /\ startPc[s] # "idle")
    /\ \A p \in PubKeys : WF_keysVars(PublicKeyAppend(p) \/ PublicKeyThrows(p))
    /\ WF_keysVars(StopDeauthorizes \/ StopReturns)

FairKeysSpec == KeysSpec /\ KeysFairness

-----------------------------------------------------------------------------
(* Properties *)

\* Only edits that take the lock have been made so far.
AllLocked == \A p \in PubKeys : keyPc[p] \in {"idle", "refused"}

\* No write-back of a removal has thrown after it truncated the file.
NothingTorn == \A s \in Sessions : edit[s] # "torn"

\* The edits that take the lock never lose or damage anyone else's line, and
\* reads and appends that throw do neither: the user's own entry stays, on a
\* line of its own, and so does the entry of a session that is waiting for its
\* client or for its timer.  The exception is a write-back that throws after
\* it truncated the file: what it had yet to write is gone.
LockedEditsKeepOthers ==
    AllLocked /\ NothingTorn =>
        /\ <<UserKey>> \in ToSet(lines)
        /\ \A s \in Sessions :
              startPc[s] = "notifying" \/ s \in pending => <<s>> \in ToSet(lines)

\* When stop() returns, no key is left that awaited removal, or was being
\* removed, when it looked, unless its removal could not read the file or not
\* write it back.
StopLeavesNoPendingKey ==
    AllLocked /\ stopPc = "stopped" =>
        \A s \in stopWaitsFor : InFile(s) => edit[s] \in {"failed", "torn"}


\* stop() returns, though reads and writes of the file may fail: no failed edit keeps
\* the lock, and no deauthorization is waited for in vain.
StopEnds == stopPc # "running" ~> stopPc = "stopped"

\* The docs of Sshnpd.stop: it removes any ephemeral keys still awaiting
\* removal (here also while an sshpublickey notification is handled).
StopRemovesKeys ==
    stopPc = "stopped" =>
        \A s \in stopWaitsFor : InFile(s) => edit[s] \in {"failed", "torn"}

\* The docs of startDirectSsh: it starts a timer to remove the ephemeral key.
AuthorizedKeyGoes ==
    \A s \in Sessions : startPc[s] = "notifying" ~> [](~InFile(s))
=============================================================================
