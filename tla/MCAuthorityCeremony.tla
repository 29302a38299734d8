------------------------ MODULE MCAuthorityCeremony ------------------------
(* Small instances of AuthorityCeremony.                                   *)
EXTENDS AuthorityCeremony

CONSTANTS a, b, r1, r2

Served(x) == [kind |-> "served", corpus |-> x, occ |-> Nobody]
NoRecord == [kind |-> "absent", corpus |-> {}, occ |-> Nobody]
CorruptRecord == [kind |-> "corrupt", corpus |-> {}, occ |-> Nobody]
UnservedRecord == [kind |-> "unserved", corpus |-> {r1}, occ |-> Nobody]
AllRecords == {NoRecord, CorruptRecord, UnservedRecord, Served({r1})}

Pinned(m, x) == [present |-> TRUE, marker |-> m, corpus |-> x, canonical |-> TRUE, stamp |-> 0]
Draft == Pinned({r1}, {r2})
AllDocuments == {NoDocument, Pinned(NoBody, {}), Pinned({r1}, {r1}), Draft}

(* Two ceremonies over one served record, *)
Race(x, y, retries, boots, lapses) ==
    [form |-> [o \in Ops |-> IF o = a THEN x ELSE y], records |-> {Served({r1})},
     documents |-> {Draft}, unsynced |-> FALSE, rounds |-> retries,
     edits |-> 0, restarts |-> boots, sweeps |-> lapses]
(* or a ceremony and a document command, from many records and documents,   *)
(* with an editor at work and a directory sync that may fail.               *)
Drift(x, y, records, documents, saves, boots) ==
    [form |-> [o \in Ops |-> IF o = a THEN x ELSE y], records |-> records,
     documents |-> documents, unsynced |-> TRUE, rounds |-> 0,
     edits |-> saves, restarts |-> boots, sweeps |-> 0]

CommitWorlds == {Race("apply", "rules", 0, 0, 0), Race("rules", "preset", 1, 0, 0),
                 Race("preset", "preset", 0, 1, 0), Race("apply", "preset", 0, 0, 1)}
ReportWorlds ==
    {Drift("apply", "rules", {Served({r1})}, {Draft}, 1, 0),
     Drift("apply", "fix", AllRecords, AllDocuments, 1, 1)}
        \cup {Drift(pair[1], pair[2], AllRecords, AllDocuments, 2, 1) :
                 pair \in {<<"export", "fix">>, <<"export", "init">>, <<"fix", "init">>}}
AllWorlds == CommitWorlds \cup ReportWorlds
OneProfile == {Race("preset", "preset", 1, 0, 0)}

OneBody == {{r2}}
StoredBody == {r1}
=============================================================================
