----------------------------- MODULE Migration ------------------------------
(***************************************************************************)
(* The conversion of the file system at the first start of a build for     *)
(* Arduino Core 3 (littlefs_migrate, called by EMSESP::start): its two     *)
(* metadata blocks are rewritten one after the other, and the power may    *)
(* fail at any time.  The file system itself, LittleFS, is external: a     *)
(* block is a chain of commits, each with a CRC and with the directory as  *)
(* it was then; of the pair the block with the higher revision counts, and *)
(* when it is full a compacted copy goes to the other one.                 *)
(***************************************************************************)
EXTENDS Naturals, Sequences, FiniteSetsExt, SequencesExt

CONSTANTS
    MaxWrites,    \* changes of the root directory (bound)
    MaxCuts,      \* power cuts (bound)
    MaxCommits    \* commits that fit into a block

ASSUME MigrationAssumption ==
    MaxWrites \in Nat /\ MaxCuts \in Nat /\ MaxCommits \in Nat \ {0}

VARIABLES
    blocks,     \* the flash: the root metadata pair
    core,       \* the firmware: 2 before the upgrade, 3 after
    pc,         \* where EMSESP::start is
    block,      \* littlefs_migrate's loop variable
    buf,        \* its buffer
    files,      \* the directory that is mounted
    latest,     \* history: the last directory committed
    atRisk,     \* history: the power failed while the newest block was rewritten
    formatted,  \* history: the file system was formatted
    writes, cuts

vars == <<blocks, core, pc, block, buf, files, latest, atRisk, formatted, writes, cuts>>
history == <<latest, atRisk, formatted, writes, cuts>>

Pair == {0, 1}
(* A block is a revision and its commits: of each, the directory, whether it  *)
(* holds the superblock struct, whether this build accepts the fields of that *)
(* (name_max and version), and whether its CRC verifies.                      *)
Erased == [rev |-> 0, commits |-> <<>>]
Other(b) == 1 - b

-----------------------------------------------------------------------------
(* LittleFS, external *)

Verified(b) ==                   \* the commits before the first bad CRC
    CHOOSE n \in 0 .. Len(b.commits) :
        /\ \A i \in 1 .. n : b.commits[i].crc
        /\ n = Len(b.commits) \/ ~b.commits[n + 1].crc

Readable(b) == Verified(b) > 0

Newest(bs) == CHOOSE b \in Pair : Readable(bs[b]) /\
                  \A c \in Pair : Readable(bs[c]) => bs[c].rev <= bs[b].rev

Supers(b)   == {i \in 1 .. Verified(b) : b.commits[i].super}
Accepts(b)  == core = 2 \/ b.commits[Max(Supers(b))].compat
Mounts(bs)  == (\E b \in Pair : Readable(bs[b])) /\ Accepts(bs[Newest(bs)])
Mounted(bs) == bs[Newest(bs)].commits[Verified(bs[Newest(bs)])].files

Fresh(f) == [files |-> f, super |-> TRUE, compat |-> core = 3, crc |-> TRUE]
Format   == [b \in Pair |-> [rev |-> b + 1, commits |-> <<Fresh(0)>>]]

-----------------------------------------------------------------------------
(* locate_superblock: the last superblock struct in a commit that verifies *)

FirstSuper(b) == IF Supers(b) = {} THEN 0 ELSE Min(Supers(b))      \* mutant

LocateSuperblock(b) == IF Supers(b) = {} THEN 0 ELSE Max(Supers(b))

CutOff(b) ==                     \* mutant
    [b EXCEPT !.commits = [SubSeq(@, 1, LocateSuperblock(b))
                             EXCEPT ![LocateSuperblock(b)].compat = TRUE]]

PatchedBlock(b) == [b EXCEPT !.commits[LocateSuperblock(b)].compat = TRUE]

ToPatch(b) == LocateSuperblock(b) # 0 /\ ~b.commits[LocateSuperblock(b)].compat

(* EMSESP::start mounts, or has littlefs_migrate patch block after block and  *)
(* mounts again, or formats.                                                  *)

Begun(bs) == Mounts(bs)          \* LittleFS.begin(false)

Run(bs) == pc' = "running" /\ files' = Mounted(bs)

Start ==
    /\ pc = "off"
    /\ \/ Begun(blocks) /\ Run(blocks) /\ UNCHANGED block
       \/ /\ ~Begun(blocks)
          /\ pc' = "patch" /\ block' = 0
          /\ UNCHANGED files
    /\ UNCHANGED <<blocks, core, buf, history>>

NextBlock == IF block = 0 THEN pc' = "patch" /\ block' = 1 ELSE pc' = "mount" /\ UNCHANGED block

PatchSkip ==
    /\ pc = "patch" /\ ~ToPatch(blocks[block])
    /\ NextBlock
    /\ UNCHANGED <<blocks, core, buf, files, history>>

BlockErased(b) == [blocks EXCEPT ![b] = Erased]

PatchErase ==
    /\ pc = "patch" /\ ToPatch(blocks[block])
    /\ buf' = PatchedBlock(blocks[block])
    /\ blocks' = BlockErased(block)
    /\ pc' = "write"
    /\ UNCHANGED <<core, block, files, history>>

PatchWrite ==
    /\ pc = "write"
    /\ blocks' = [blocks EXCEPT ![block] = buf]
    /\ NextBlock
    /\ UNCHANGED <<core, buf, files, history>>

MountAgain ==
    /\ pc = "mount"
    /\ IF Begun(blocks)          \* converted, or LittleFS.begin(true) mounts it
       THEN Run(blocks) /\ UNCHANGED <<blocks, formatted, latest>>
       ELSE blocks' = Format /\ Run(Format) /\ formatted' = TRUE /\ latest' = 0
    /\ UNCHANGED <<core, block, buf, atRisk, writes, cuts>>

-----------------------------------------------------------------------------
(* The file system in use: a change of the root directory is one more commit, *)
(* or the first of a compacted copy.                                          *)

Whole(b) == Verified(b) = Len(b.commits)

Write ==
    /\ pc = "running" /\ writes < MaxWrites
    /\ writes' = writes + 1 /\ latest' = writes + 1 /\ files' = writes + 1
    /\ LET b == Newest(blocks)
       IN  \/ /\ Whole(blocks[b]) /\ Len(blocks[b].commits) < MaxCommits
              /\ \E super \in BOOLEAN :
                    blocks' = [blocks EXCEPT ![b].commits =
                                  Append(@, [Fresh(writes + 1) EXCEPT !.super = super])]
           \/ blocks' = [blocks EXCEPT ![Other(b)] =
                  [rev |-> blocks[b].rev + 1, commits |-> <<Fresh(writes + 1)>>]]
    /\ UNCHANGED <<core, pc, block, buf, atRisk, formatted, cuts>>

Upgrade ==
    /\ pc = "running" /\ core = 2
    /\ core' = 3 /\ pc' = "off"
    /\ UNCHANGED <<blocks, block, buf, files, history>>

-----------------------------------------------------------------------------
(* Power cuts: a block that is being written is left torn after any commit; a *)
(* change of the directory in use leaves a commit or a copy with a bad CRC.   *)

Torn(b) == {[b EXCEPT !.commits = SubSeq(@, 1, n)] : n \in 0 .. Len(b.commits)}
Bad(b)  == [b EXCEPT !.commits = Append(@, [Fresh(files) EXCEPT !.crc = FALSE])]

PowerCut ==
    /\ pc # "off" /\ cuts < MaxCuts
    /\ cuts' = cuts + 1 /\ pc' = "off"
    /\ \/ UNCHANGED blocks
       \/ pc = "write" /\ \E t \in Torn(buf) : blocks' = [blocks EXCEPT ![block] = t]
       \/ /\ pc = "running"
          /\ LET b == Newest(blocks)
             IN  \/ Whole(blocks[b]) /\ blocks' = [blocks EXCEPT ![b] = Bad(blocks[b])]
                 \/ blocks' = [blocks EXCEPT ![Other(b)] = Bad(Erased)]
    /\ atRisk' = (atRisk \/ (pc = "write" /\ \A b \in Pair : buf.rev >= blocks[b].rev))
    /\ UNCHANGED <<core, block, buf, files, latest, formatted, writes>>

-----------------------------------------------------------------------------
Init ==
    /\ core = 2 /\ pc = "running"
    /\ blocks = Format
    /\ block = 0 /\ buf = Erased
    /\ files = 0 /\ latest = 0 /\ atRisk = FALSE /\ formatted = FALSE
    /\ writes = 0 /\ cuts = 0

Next ==
    \/ Start \/ PatchSkip \/ PatchErase \/ PatchWrite \/ MountAgain
    \/ Write \/ Upgrade \/ PowerCut

Spec == Init /\ [][Next]_vars

-----------------------------------------------------------------------------
(* "Rewriting them one at a time keeps one readable copy available" if the    *)
(* power fails (the comment in littlefs_migrate).                             *)
OneReadable == \E b \in Pair : Readable(blocks[b])

(* An upgrade never costs the settings: whatever commits the blocks hold and   *)
(* whenever the power fails once, EMSESP::start never gets to                 *)
(* LittleFS.begin(true) with a file system that has to be formatted.          *)
NeverFormatted == ~formatted

(* The directory that is mounted after the conversion is the last one that was *)
(* committed before it, unless the power failed while the newer block was      *)
(* rewritten.                                                                  *)
LatestKept == pc = "running" /\ ~atRisk => files = latest
=============================================================================
