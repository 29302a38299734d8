---------------------------- MODULE DocumentStore ----------------------------
(***************************************************************************)
(* The guarded file store behind the `cermet doc' commands                 *)
(* (cermet-cli/src/document_store.rs): CERMET.md is read with its identity *)
(* and published by an exclusive temporary file, a recheck, and one link   *)
(* or rename, while an editor, a formatter or another cermet works on the  *)
(* same directory.  No lock is taken: interference is detected afterwards  *)
(* and reported.                                                           *)
(*                                                                         *)
(* A file is an inode with its bytes, its mode and its ctime; ctime is the *)
(* number of changes made to that inode (the kernel stamps them apart), so *)
(* the ghost `past' can name the bytes of any earlier ctime.  Unfit stands *)
(* for anything read_regular_bounded refuses: a symlink, a fifo, a socket, *)
(* or more than MAX_DOCUMENT_BYTES.  Every read is an open followed by two *)
(* fstats around the bytes, so it takes two steps.                         *)
(***************************************************************************)
EXTENDS Naturals, Sequences

CONSTANTS
    Writers,     \* cermet processes that publish the document
    Contents,    \* documents anybody may write
    Unfit,       \* what is not a bounded regular file
    MaxTouches,  \* bound: acts of the other programs
    MaxFaults,   \* bound: failed system calls
    MaxInode     \* bound: files created

StoreAssumption ==
    /\ Unfit \notin Contents
    /\ MaxTouches \in Nat /\ MaxFaults \in Nat /\ MaxInode \in Nat \ {0}

VARIABLES
    node,     \* inode -> [bytes, mode, ctime], for the inodes created so far
    doc,      \* the inode CERMET.md names, 0 when it is missing
    temp,     \* writer -> the inode its temporary name names, 0 when absent
    disk,     \* the inode CERMET.md names after the last directory fsync
    flushed,  \* inode -> the bytes and mode its last fsync made durable
    call,     \* writer -> the publication call it is in
    touches, faults,
    past      \* ghost: inode -> bytes it had at each ctime

files == <<node, doc, temp, disk, flushed, past>>
vars == <<files, call, touches, faults>>

Inodes == 1..MaxInode
Private == 384   \* 0o600, create_temp
Public == 420    \* 0o644, create_impl
Modes == {Private, Public, 292}
None == [ino |-> 0, bytes |-> Unfit, mode |-> Private, ctime |-> 0]

Idle == [pc |-> "idle", op |-> "create", want |-> Unfit, expected |-> None,
         before |-> None, intended |-> 0, recheck |-> 0, bound |-> 0,
         final |-> None, edited |-> FALSE, cleaned |-> TRUE, mode |-> "none",
         synced |-> TRUE, over |-> None, outcome |-> "none"]

Allocated == Len(node)
Stat(i) == [ino |-> i, bytes |-> node[i].bytes, mode |-> node[i].mode,
            ctime |-> node[i].ctime]

\* FilePreimage's PartialEq: identity and bytes, not mode or ctime.
SameFile(a, b) == a.ino = b.ino /\ a.bytes = b.bytes

\* exact_state_matches: also the mode and the change cookie.
ExactStateMatches(a, b) == SameFile(a, b) /\ a.mode = b.mode /\ a.ctime = b.ctime

\* read_regular_bounded: the metadata before, the bytes, and the metadata after.
ReadRegularBounded(before) ==
    IF before.bytes = Unfit \/ node[before.ino].ctime # before.ctime THEN None
    ELSE [before EXCEPT !.bytes = node[before.ino].bytes]

-----------------------------------------------------------------------------
(* Changes to inodes and the directory. *)

\* The kernel stamps every inode in S whose bytes, mode or links change.
Stamp(f, S) == [i \in DOMAIN f |->
    IF i \in S THEN [f[i] EXCEPT !.ctime = @ + 1] ELSE f[i]]

SetNodes(f) ==
    /\ node' = f
    /\ past' = [i \in DOMAIN f |->
          IF i \notin DOMAIN node THEN <<f[i].bytes>>
          ELSE IF f[i].ctime # node[i].ctime THEN Append(past[i], f[i].bytes)
          ELSE past[i]]

NewNode(b, m) == Append(node, [bytes |-> b, mode |-> m, ctime |-> 1])

Goto(w, c) == call' = [call EXCEPT ![w] = c]

\* A failed system call is one of a bounded number.
Fault == faults < MaxFaults /\ faults' = faults + 1
NoFault == UNCHANGED faults

\* An early return drops the TempEntry, which unlinks its name only while the
\* name still leads to the inode it created (Drop, unlink_if_same).
Refuse(w) ==
    LET mine == temp[w] # 0 /\ temp[w] = call[w].intended IN
    /\ Goto(w, [call[w] EXCEPT !.pc = "done", !.outcome = "refused"])
    /\ temp' = [temp EXCEPT ![w] = IF mine THEN 0 ELSE @]
    /\ IF mine THEN SetNodes(Stamp(node, {temp[w]})) ELSE UNCHANGED <<node, past>>
    /\ UNCHANGED <<doc, disk, flushed>>

\* openat CERMET.md and the first fstat; `missing' is where NotFound leads.
Open(w, reading, missing) ==
    /\ UNCHANGED <<files, touches, faults>>
    /\ Goto(w, IF doc = 0 THEN [call[w] EXCEPT !.pc = missing, !.before = None]
               ELSE [call[w] EXCEPT !.pc = reading, !.before = Stat(doc)])

-----------------------------------------------------------------------------
(* One publication: read, then create or replace. *)

\* The command reads the document before it decides what to write.
Read(w) ==
    /\ call[w].pc = "idle"
    /\ Open(w, "reading", "missing")

\* A document that is there is replaced against its preimage.
ReadPreimage(w) ==
    LET got == ReadRegularBounded(call[w].before) IN
    /\ call[w].pc = "reading"
    /\ UNCHANGED <<touches, faults>>
    /\ IF got = None THEN Refuse(w)
       ELSE /\ Goto(w, [call[w] EXCEPT !.pc = "temp", !.op = "replace", !.expected = got])
            /\ UNCHANGED files

\* A document that is not there is created.
ReadMissing(w) ==
    /\ call[w].pc = "missing"
    /\ Goto(w, [call[w] EXCEPT !.pc = "temp", !.op = "create"])
    /\ UNCHANGED <<files, touches, faults>>

\* create_temp, write_all, sync_all and the read back of a file no other
\* program has opened; a failed call leaves nothing behind.
CreateTemp(w, b) ==
    /\ call[w].pc = "temp" /\ Allocated < MaxInode
    /\ UNCHANGED <<doc, disk, touches>>
    /\ \/ LET i == Allocated + 1 IN
          /\ SetNodes(NewNode(b, Private))
          /\ temp' = [temp EXCEPT ![w] = i]
          /\ flushed' = Append(flushed, [bytes |-> b, mode |-> Private])
          /\ NoFault
          /\ Goto(w, [call[w] EXCEPT !.want = b, !.intended = i,
                        !.pc = IF call[w].op = "create" THEN "publish" ELSE "open"])
       \/ /\ Fault /\ UNCHANGED <<node, past, temp, flushed>>
          /\ Goto(w, [call[w] EXCEPT !.pc = "done", !.outcome = "refused"])

\* replace_impl opens the document again; gone means PreimageChanged.
OpenRecheck(w) ==
    /\ call[w].pc = "open"
    /\ UNCHANGED <<touches, faults>>
    /\ IF doc = 0 THEN Refuse(w)
       ELSE /\ Goto(w, [call[w] EXCEPT !.pc = "rechecking", !.before = Stat(doc),
                          !.recheck = doc])
            /\ UNCHANGED files

\* The bytes, identity, mode and ctime must be the ones first read.
Recheck(w) ==
    LET got == ReadRegularBounded(call[w].before) IN
    /\ call[w].pc = "rechecking"
    /\ UNCHANGED <<touches, faults>>
    /\ IF got # None /\ ExactStateMatches(got, call[w].expected)
       THEN /\ Goto(w, [call[w] EXCEPT !.pc = "publish"])
            /\ UNCHANGED files
       ELSE Refuse(w)

\* linkat of the temporary name: AlreadyExists, a lost name and any other
\* failure refuse.
Link(w) ==
    /\ call[w].pc = "publish" /\ call[w].op = "create"
    /\ UNCHANGED touches
    /\ \/ (doc # 0 \/ temp[w] = 0) /\ NoFault /\ Refuse(w)
       \/ Fault /\ Refuse(w)
       \/ /\ doc = 0 /\ temp[w] # 0 /\ NoFault
          /\ doc' = temp[w]
          /\ SetNodes(Stamp(node, {temp[w]}))
          /\ Goto(w, [call[w] EXCEPT !.pc = "bind"])
          /\ UNCHANGED <<temp, disk, flushed>>

\* renameat of the temporary name over whatever CERMET.md names by now.
Rename(w) ==
    /\ call[w].pc = "publish" /\ call[w].op = "replace"
    /\ UNCHANGED touches
    /\ \/ temp[w] = 0 /\ NoFault /\ Refuse(w)
       \/ Fault /\ Refuse(w)
       \/ /\ temp[w] # 0 /\ NoFault
          /\ doc' = temp[w]
          /\ temp' = [temp EXCEPT ![w] = 0]
          /\ SetNodes(Stamp(node, {temp[w], doc} \ {0}))
          /\ Goto(w, [call[w] EXCEPT !.pc = "reopen",
                        !.over = IF doc = 0 THEN None ELSE Stat(doc)])
          /\ UNCHANGED <<disk, flushed>>

\* The held descriptor of the rechecked file is read once more.
OpenReread(w) ==
    /\ call[w].pc = "reopen"
    /\ Goto(w, [call[w] EXCEPT !.pc = "rereading", !.before = Stat(call[w].recheck)])
    /\ UNCHANGED <<files, touches, faults>>

\* Defect: the descriptor is not compared with the preimage.
Edited_Ignored(w) == FALSE

\* pre_rename_edit_detected.
Edited(w) ==
    LET got == ReadRegularBounded(call[w].before) IN
    got = None \/ ~SameFile(got, call[w].expected)

Reread(w) ==
    /\ call[w].pc = "rereading"
    /\ Goto(w, [call[w] EXCEPT !.pc = "bind", !.edited = Edited(w)])
    /\ UNCHANGED <<files, touches, faults>>

\* bound_destination: what CERMET.md names now must be the intended inode.
OpenBind(w) ==
    /\ call[w].pc = "bind"
    /\ Open(w, "binding", "unbound")

\* publication_source_matches, with None for an unreadable document.
SourceMatches(got, c) == got # None /\ got.ino = c.intended /\ got.bytes = c.want

Bind(w) ==
    LET got == IF call[w].pc = "unbound" THEN None ELSE ReadRegularBounded(call[w].before)
        ours == SourceMatches(got, call[w])
    IN
    /\ call[w].pc \in {"binding", "unbound"}
    /\ Goto(w, [call[w] EXCEPT
          !.bound = IF ours THEN got.ino ELSE 0,
          !.pc = IF call[w].op = "create" THEN "cleanup"
                 ELSE IF ours THEN "mode" ELSE "dirsync"])
    /\ UNCHANGED <<files, touches, faults>>

\* create_impl unlinks its temporary name, unless another inode is under it.
Cleanup(w) ==
    LET next == IF call[w].bound # 0 THEN "mode" ELSE "dirsync"
        mine == temp[w] = call[w].intended
    IN
    /\ call[w].pc = "cleanup"
    /\ UNCHANGED <<doc, disk, flushed, touches>>
    /\ \/ /\ mine /\ NoFault
          /\ temp' = [temp EXCEPT ![w] = 0]
          /\ SetNodes(Stamp(node, {call[w].intended}))
          /\ Goto(w, [call[w] EXCEPT !.pc = next])
       \/ /\ IF mine THEN Fault ELSE NoFault
          /\ UNCHANGED <<temp, node, past>>
          /\ Goto(w, [call[w] EXCEPT !.pc = next, !.cleaned = FALSE])

WantedMode(w) == IF call[w].op = "create" THEN Public ELSE call[w].expected.mode

\* apply_destination_mode on the bound descriptor: chmod, fsync, and the read
\* that fixes the state the final check expects.
ApplyMode(w) ==
    LET i == call[w].bound
        moded == [Stamp(node, {i}) EXCEPT ![i].mode = WantedMode(w)]
    IN
    /\ call[w].pc = "mode"
    /\ UNCHANGED <<doc, temp, disk, touches>>
    /\ \/ /\ Fault /\ UNCHANGED <<node, past, flushed>>
          /\ Goto(w, [call[w] EXCEPT !.pc = "dirsync", !.mode = "failed"])
       \/ /\ SetNodes(moded) /\ NoFault
          /\ flushed' = [flushed EXCEPT ![i] = [bytes |-> moded[i].bytes, mode |-> moded[i].mode]]
          /\ Goto(w, [call[w] EXCEPT !.pc = "expect"])
       \/ /\ SetNodes(moded) /\ Fault /\ UNCHANGED flushed
          /\ Goto(w, [call[w] EXCEPT !.pc = "expect", !.synced = FALSE])

OpenExpect(w) ==
    /\ call[w].pc = "expect"
    /\ Goto(w, [call[w] EXCEPT !.pc = "expecting", !.before = Stat(call[w].bound)])
    /\ UNCHANGED <<files, touches, faults>>

Expect(w) ==
    LET got == ReadRegularBounded(call[w].before)
        applied == got # None /\ got.mode = WantedMode(w)
    IN
    /\ call[w].pc = "expecting"
    /\ Goto(w, [call[w] EXCEPT !.pc = "dirsync",
                  !.mode = IF applied THEN "applied" ELSE "failed",
                  !.final = IF applied THEN got ELSE None])
    /\ UNCHANGED <<files, touches, faults>>

\* root.sync_all: makes the name durable, whichever inode it leads to.
SyncDirectory(w) ==
    /\ call[w].pc = "dirsync"
    /\ UNCHANGED <<node, past, doc, temp, flushed, touches>>
    /\ \/ /\ disk' = doc /\ NoFault
          /\ Goto(w, [call[w] EXCEPT !.pc = "last"])
       \/ /\ Fault /\ UNCHANGED disk
          /\ Goto(w, [call[w] EXCEPT !.pc = "last", !.synced = FALSE])

\* final_destination_state opens the document one last time.
OpenFinal(w) ==
    /\ call[w].pc = "last"
    /\ Open(w, "finishing", "gone")

\* Defect: the final read is compared by identity and bytes only.
FinalMatches_Loose(got, final) == got # None /\ final # None /\ SameFile(got, final)

\* publication_final_matches, with None for a missing or unreadable document.
FinalMatches(got, final) == got # None /\ final # None /\ ExactStateMatches(got, final)

\* PublicationClaims::finish: any interference withdraws the clean claims.
Finish(w) ==
    LET got == IF call[w].pc = "gone" THEN None ELSE ReadRegularBounded(call[w].before)
        interfered == call[w].bound = 0 \/ call[w].edited
                      \/ ~FinalMatches(got, call[w].final)
    IN
    /\ call[w].pc \in {"finishing", "gone"}
    /\ Goto(w, [call[w] EXCEPT !.pc = "done",
                  !.outcome = IF interfered THEN "interfered" ELSE "published"])
    /\ UNCHANGED <<files, touches, faults>>

WriterStep(w) ==
    \/ Read(w) \/ ReadPreimage(w) \/ ReadMissing(w) \/ (\E b \in Contents : CreateTemp(w, b))
    \/ OpenRecheck(w) \/ Recheck(w) \/ Link(w) \/ Rename(w)
    \/ OpenReread(w) \/ Reread(w) \/ OpenBind(w) \/ Bind(w) \/ Cleanup(w)
    \/ ApplyMode(w) \/ OpenExpect(w) \/ Expect(w) \/ SyncDirectory(w)
    \/ OpenFinal(w) \/ Finish(w)

-----------------------------------------------------------------------------
(* The other programs that work in the directory. *)

Touch == touches < MaxTouches /\ touches' = touches + 1
Elsewhere == UNCHANGED <<call, faults, disk>>

\* A program that has the file open rewrites it, perhaps with the same bytes.
EditInPlace(i, b) ==
    /\ Touch /\ Elsewhere
    /\ i # 0 /\ i \in {doc} \cup {call[w].recheck : w \in Writers}
    /\ SetNodes([Stamp(node, {i}) EXCEPT ![i].bytes = b])
    /\ UNCHANGED <<doc, temp, flushed>>

Chmod(m) ==
    /\ Touch /\ Elsewhere /\ doc # 0
    /\ SetNodes([Stamp(node, {doc}) EXCEPT ![doc].mode = m])
    /\ UNCHANGED <<doc, temp, flushed>>

\* An editor saves by renaming its own file over the document.
SaveByRename(b) ==
    /\ Touch /\ Elsewhere /\ Allocated < MaxInode
    /\ SetNodes(Append(Stamp(node, {doc} \ {0}), [bytes |-> b, mode |-> Public, ctime |-> 1]))
    /\ doc' = Allocated + 1
    /\ flushed' = Append(flushed, [bytes |-> Unfit, mode |-> Public])
    /\ UNCHANGED temp

Remove ==
    /\ Touch /\ Elsewhere /\ doc # 0
    /\ SetNodes(Stamp(node, {doc}))
    /\ doc' = 0
    /\ UNCHANGED <<temp, flushed>>

\* Something else is put under a writer's temporary name.
SwapTemp(w, b) ==
    /\ Touch /\ Elsewhere /\ temp[w] # 0 /\ Allocated < MaxInode
    /\ SetNodes(Append(Stamp(node, {temp[w]}), [bytes |-> b, mode |-> Public, ctime |-> 1]))
    /\ temp' = [temp EXCEPT ![w] = Allocated + 1]
    /\ flushed' = Append(flushed, [bytes |-> Unfit, mode |-> Public])
    /\ UNCHANGED doc

Others ==
    \/ \E i \in Inodes, b \in Contents \cup {Unfit} : i <= Allocated /\ EditInPlace(i, b)
    \/ \E m \in Modes : Chmod(m)
    \/ \E b \in Contents \cup {Unfit} : SaveByRename(b)
    \/ Remove
    \/ \E w \in Writers, b \in Contents : SwapTemp(w, b)

\* The repository starts with no document, or with one somebody wrote.
\* A writer that gave up before it looked, and mishaps of which some are over.
Ended == [Idle EXCEPT !.pc = "done", !.outcome = "refused"]

Init ==
    /\ \/ node = <<>> /\ past = <<>> /\ flushed = <<>> /\ doc = 0 /\ disk = 0
       \/ \E b \in Contents :
             /\ node = <<[bytes |-> b, mode |-> Public, ctime |-> 1]>>
             /\ past = << <<b>> >>
             /\ flushed = <<[bytes |-> b, mode |-> Public]>>
             /\ doc = 1 /\ disk = 1
    /\ temp = [w \in Writers |-> 0]
    /\ call \in [Writers -> {Idle, Ended}]
    /\ touches \in 0..MaxTouches /\ faults \in 0..MaxFaults

Next == (\E w \in Writers : WriterStep(w)) \/ Others

Spec == Init /\ [][Next]_vars

-----------------------------------------------------------------------------
(* Properties. *)

Files == [bytes : Contents \cup {Unfit}, mode : Modes, ctime : Nat \ {0}]

TypeOK ==
    /\ node \in Seq(Files) /\ Allocated <= MaxInode
    /\ DOMAIN past = DOMAIN node /\ DOMAIN flushed = DOMAIN node
    /\ doc \in 0..Allocated /\ disk \in 0..Allocated
    /\ temp \in [Writers -> 0..Allocated]
    /\ touches \in 0..MaxTouches /\ faults \in 0..MaxFaults
    /\ \A w \in Writers :
          /\ call[w].outcome \in {"none", "refused", "interfered", "published"}
          /\ call[w].bound \in {0, call[w].intended}

\* publication_is_clean: what the callers require before they claim success.
PublicationIsClean(c) ==
    /\ c.outcome = "published" /\ c.synced /\ c.mode = "applied" /\ c.cleaned
    /\ c.final.bytes = c.want

\* A publication that is clean when it is reported is true at that moment:
\* CERMET.md names the very file the writer made, with its bytes and the mode
\* it was to have, whatever happened between the rename and the report.
CleanReportTrue ==
    [][\A w \in Writers :
          call[w].pc # "done" /\ PublicationIsClean(call'[w]) =>
              /\ doc = call[w].intended
              /\ node[doc].bytes = call[w].want
              /\ node[doc].mode = WantedMode(w)]_vars

\* `durability: durable' is claimed only of a name a power loss cannot take
\* away and, unless another program rewrote the new file, of its bytes.
DurableClaimTrue ==
    [][\A w \in Writers :
          call[w].pc # "done" /\ PublicationIsClean(call'[w]) =>
              /\ disk = call[w].intended
              /\ (\A k \in DOMAIN past[disk] : past[disk][k] = call[w].want)
                     => flushed[disk].bytes = call[w].want]_vars

\* `doc check --init' never takes a document's place: a clean create found no
\* document under the name.
CreateNeverClobbers ==
    \A w \in Writers : call[w].op = "create" => call[w].over = None

\* An edit made in place between the read and the rename is not lost in
\* silence: a replacement that is reported without interference overwrote the
\* bytes that were read, or a file whose editor put those bytes back after it.
EditInPlaceSurfaces ==
    \A w \in Writers :
        LET c == call[w]  i == c.over.ino IN
        c.outcome = "published" /\ i # 0 /\ i = c.expected.ino =>
            \E k \in c.over.ctime..Len(past[i]) : past[i][k] = c.expected.bytes

=============================================================================
