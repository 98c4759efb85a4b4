--------------------------- MODULE ConfigRelease ---------------------------
(***************************************************************************)
(* Publishing and deleting the release of one config file                  *)
(* (src/config/config_file_release.go).  Each handler is a sequence of     *)
(* store calls made by one request goroutine; requests of several clients *)
(* interleave between the calls.  A release row carries a version, the     *)
(* released content and a deleted flag; config clients follow a file by   *)
(* its release version, so a version must name one content.               *)
(*                                                                         *)
(* The store calls are modelled from the store contract: GetConfigFile,   *)
(* GetConfigFileReleaseWithAllFlag (the row, deleted or not),              *)
(* GetConfigFileRelease (the live row only), CreateConfigFileRelease       *)
(* (fails when the row exists), UpdateConfigFileRelease (writes the given  *)
(* version and content and clears the flag), DeleteConfigFileRelease (sets *)
(* the flag and bumps the version).  A read that fails or finds nothing    *)
(* returns before any write, so it is the request not being made.         *)
(* Release names and history records are left out; encryption is kept as *)
(* Plain, what decryptConfigFileRelease gives the release's creator.       *)
(***************************************************************************)
EXTENDS Naturals

CONSTANTS
    Clients,      \* concurrent request goroutines
    Contents,     \* file contents an editor may save
    MaxVersion,   \* bound on release versions
    NoContent,    \* the content of a release never written or deleted
    Plain         \* content -> its plaintext (itself when not encrypted)

ASSUME MaxVersion \in Nat \ {0} /\ NoContent \notin Contents
ASSUME Plain \in [Contents -> Contents]

VARIABLES
    file,         \* content of the config file (GetConfigFile)
    rel,          \* the release row: [row, deleted, ver, content]
    published,    \* every <<version, content>> written (NoContent: deleted)
    pc,           \* each request's position in its handler
    snap          \* what each request read before writing

vars == <<file, rel, published, pc, snap>>

Release == [row : BOOLEAN, deleted : BOOLEAN, ver : 0..MaxVersion,
            content : Contents \cup {NoContent}]
Snapshot == [row : BOOLEAN, ver : 0..MaxVersion,
             content : Contents \cup {NoContent}]
NoSnapshot == [row |-> FALSE, ver |-> 0, content |-> NoContent]

-----------------------------------------------------------------------------
\* GetConfigFileRelease: the release unless it is deleted.
LiveRelease == rel.row /\ ~rel.deleted

\* Mutant: the store model of a release read back drops its version.
ToStoreModelNoVersion(s) == [ver |-> 0, content |-> s.content]

\* decryptConfigFileRelease: a release read by its creator, in a group with
\* a data key, comes back as plaintext; NoContent stays as it is.
PlainOf(x) == IF x \in Contents THEN Plain[x] ELSE x

\* transferConfigFileReleaseAPIModel2StoreModel: the release read by
\* GetConfigFileRelease turned back into a store model for an update.
ToStoreModel(s) == [ver |-> s.ver, content |-> s.content]

\* UpdateConfigFileRelease of model m: a live row with m's version.
Updated(m) == [row |-> TRUE, deleted |-> FALSE, ver |-> m.ver,
               content |-> m.content]

-----------------------------------------------------------------------------
Init ==
    /\ file \in Contents
    /\ rel = [row |-> FALSE, deleted |-> FALSE, ver |-> 0, content |-> NoContent]
    /\ published = {}
    /\ pc = [c \in Clients |-> "idle"]
    /\ snap = [c \in Clients |-> NoSnapshot]

\* The file is edited and saved (the config file handlers, outside this
\* module): the next publish releases the new content.
EditFile(v) ==
    /\ file # v
    /\ file' = v
    /\ UNCHANGED <<rel, published, pc, snap>>

(* PublishConfigFile.                                                     *)

\* The file to publish and the release row, deleted or not, are read.
PubRead(c) ==
    /\ pc[c] = "idle"
    /\ pc' = [pc EXCEPT ![c] = "pubWrite"]
    /\ snap' = [snap EXCEPT ![c] = [row |-> rel.row, ver |-> rel.ver,
                                    content |-> file]]
    /\ UNCHANGED <<file, rel, published>>

\* First publish: CreateConfigFileRelease with version 1.
PubCreate(c) ==
    /\ pc[c] = "pubWrite"
    /\ ~snap[c].row
    /\ ~rel.row
    /\ rel' = [row |-> TRUE, deleted |-> FALSE, ver |-> 1,
               content |-> snap[c].content]
    /\ published' = published \cup {<<1, snap[c].content>>}
    /\ pc' = [pc EXCEPT ![c] = "idle"]
    /\ snap' = [snap EXCEPT ![c] = NoSnapshot]
    /\ UNCHANGED file

\* Later publish: UpdateConfigFileRelease with the version read plus one.
PubUpdate(c) ==
    /\ pc[c] = "pubWrite"
    /\ snap[c].row
    /\ snap[c].ver < MaxVersion
    /\ rel' = Updated([ver |-> snap[c].ver + 1, content |-> snap[c].content])
    /\ published' = published \cup {<<snap[c].ver + 1, snap[c].content>>}
    /\ pc' = [pc EXCEPT ![c] = "idle"]
    /\ snap' = [snap EXCEPT ![c] = NoSnapshot]
    /\ UNCHANGED file

\* The create or update returns an error (a create also fails when another
\* request created the row first): StoreLayerException, nothing written.
PubFail(c) ==
    /\ pc[c] = "pubWrite"
    /\ pc' = [pc EXCEPT ![c] = "idle"]
    /\ snap' = [snap EXCEPT ![c] = NoSnapshot]
    /\ UNCHANGED <<file, rel, published>>

(* DeleteConfigFileRelease.                                               *)

\* GetConfigFileRelease: a file never published, or already deleted,
\* returns success without writing.  The release is decrypted when the
\* caller created it and its group has a data key (decrypted); a failed
\* decryption returns DecryptConfigFileException before any write.
DelRead(c) ==
    /\ pc[c] = "idle"
    /\ LiveRelease
    /\ pc' = [pc EXCEPT ![c] = "delRename"]
    /\ \E decrypted \in BOOLEAN :
          snap' = [snap EXCEPT ![c] =
                     [row |-> TRUE, ver |-> rel.ver,
                      content |-> IF decrypted THEN PlainOf(rel.content)
                                  ELSE rel.content]]
    /\ UNCHANGED <<file, rel, published>>

\* When GenReleaseName gives a new name, the release read is written back
\* under it with UpdateConfigFileRelease; otherwise nothing is written.
DelRename(c) ==
    /\ pc[c] = "delRename"
    /\ \E rename \in BOOLEAN :
          IF rename
          THEN /\ rel' = Updated(ToStoreModel(snap[c]))
               /\ published' = published \cup
                    {<<ToStoreModel(snap[c]).ver, snap[c].content>>}
          ELSE UNCHANGED <<rel, published>>
    /\ pc' = [pc EXCEPT ![c] = "delDelete"]
    /\ UNCHANGED <<file, snap>>

\* Mutant: the row is marked deleted under the version it had.
DelDeleteNoBump(c) ==
    /\ pc[c] = "delDelete"
    /\ rel' = [rel EXCEPT !.deleted = TRUE]
    /\ published' = published \cup {<<rel.ver, NoContent>>}
    /\ pc' = [pc EXCEPT ![c] = "idle"]
    /\ snap' = [snap EXCEPT ![c] = NoSnapshot]
    /\ UNCHANGED file

\* DeleteConfigFileRelease marks the row deleted.
DelDelete(c) ==
    /\ pc[c] = "delDelete"
    /\ rel.ver < MaxVersion
    /\ rel' = [rel EXCEPT !.deleted = TRUE, !.ver = @ + 1]
    /\ published' = published \cup {<<rel.ver + 1, NoContent>>}
    /\ pc' = [pc EXCEPT ![c] = "idle"]
    /\ snap' = [snap EXCEPT ![c] = NoSnapshot]
    /\ UNCHANGED file

\* The rename or the delete returns an error: StoreLayerException, after a
\* rename that may already have been written.
DelFail(c) ==
    /\ pc[c] \in {"delRename", "delDelete"}
    /\ pc' = [pc EXCEPT ![c] = "idle"]
    /\ snap' = [snap EXCEPT ![c] = NoSnapshot]
    /\ UNCHANGED <<file, rel, published>>

Next ==
    \/ \E v \in Contents : EditFile(v)
    \/ \E c \in Clients :
          \/ PubRead(c) \/ PubCreate(c) \/ PubUpdate(c) \/ PubFail(c)
          \/ DelRead(c) \/ DelRename(c) \/ DelDelete(c) \/ DelFail(c)

Spec == Init /\ [][Next]_vars

-----------------------------------------------------------------------------
TypeOK ==
    /\ file \in Contents
    /\ rel \in Release
    /\ rel.row => rel.ver \in 1..MaxVersion
    /\ published \subseteq (1..MaxVersion) \X (Contents \cup {NoContent})
    /\ pc \in [Clients -> {"idle", "pubWrite", "delRename", "delDelete"}]
    /\ snap \in [Clients -> Snapshot]

Register == INSTANCE ReleaseRegister
    WITH rel <- [rel EXCEPT !.content = PlainOf(@)]

ImplementsRegister == Register!Spec

\* The release version never goes back: a client holding the newest version
\* still sees the next publish or delete as newer.
VersionNeverDecreases == [][rel'.ver >= rel.ver]_vars

=============================================================================
