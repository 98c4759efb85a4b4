---------------------------- MODULE ConfigGroup ----------------------------
(***************************************************************************)
(* Creating and deleting one config file group (src/config/               *)
(* config_file_group.go) by concurrent requests, with the files of the     *)
(* group, and the resource hooks called after every change               *)
(* (afterConfigGroupResource, src/config/server.go).                      *)
(*                                                                         *)
(* The group is identified by its name; the store gives every group row a *)
(* fresh id, and GetConfigFileGroup, CreateConfigFileGroup (fails while a *)
(* row of that name exists) and DeleteConfigFileGroup work on the name.    *)
(* A file of the group is a number; QueryConfigFilesByGroup returns the   *)
(* live files ordered by id from an offset, BatchDeleteConfigFile deletes  *)
(* the files it is given.  A file is created by a request that first       *)
(* ensures the group (createConfigFileGroupIfAbsent) and then inserts the  *)
(* file.  What the hooks do is outside src/: a hook call is a step that   *)
(* succeeds or fails.  Each store or hook call is one step; a read that   *)
(* fails returns before any write, so it is the request not being made.   *)
(***************************************************************************)
EXTENDS Naturals, FiniteSets

CONSTANTS
    Clients,       \* concurrent request goroutines
    NFiles,        \* files 1..NFiles may be created in the group
    MaxPageSize,   \* MaxPageSize of the paged delete
    MaxGroupId,    \* bound on the group ids the store hands out
    HookCanFail,   \* whether a hook may return an error
    NoFile         \* a request that creates no file

ASSUME NFiles \in Nat /\ MaxPageSize \in Nat \ {0}
ASSUME MaxGroupId \in Nat \ {0} /\ HookCanFail \in BOOLEAN
ASSUME NoFile \notin 1..NFiles

Files == 1..NFiles

VARIABLES
    group,     \* id of the group row, 0 when there is none
    nextId,    \* the id the store gives the next group row
    files,     \* live files of the group
    pc,        \* each request's position in its handler
    want,      \* the file a file-creating request inserts, or NoFile
    off,       \* startOffset of a delete
    page,      \* the files the delete's last query returned
    gid        \* the group id a request passes to the hooks

vars == <<group, nextId, files, pc, want, off, page, gid>>

PCs == {"idle", "createRead", "createWrite", "createHook", "fileInsert",
        "delQuery", "delBatch", "delGet", "delGroup", "deleteHook",
        "updWrite", "updateHook", "qryGet", "qryTransfer"}

-----------------------------------------------------------------------------
\* QueryConfigFilesByGroup(startOffset, MaxPageSize): the live files whose
\* position in id order is in startOffset+1 .. startOffset+MaxPageSize.
Page(o) == {f \in files : o < Cardinality({g \in files : g <= f})
                          /\ Cardinality({g \in files : g <= f}) <= o + MaxPageSize}

\* The request is over: its locals are gone.
Return(c) ==
    /\ pc' = [pc EXCEPT ![c] = "idle"]
    /\ want' = [want EXCEPT ![c] = NoFile]
    /\ off' = [off EXCEPT ![c] = 0]
    /\ page' = [page EXCEPT ![c] = {}]
    /\ gid' = [gid EXCEPT ![c] = 0]

-----------------------------------------------------------------------------
Init ==
    /\ group = 0
    /\ nextId = 1
    /\ files = {}
    /\ pc = [c \in Clients |-> "idle"]
    /\ want = [c \in Clients |-> NoFile]
    /\ off = [c \in Clients |-> 0]
    /\ page = [c \in Clients |-> {}]
    /\ gid = [c \in Clients |-> 0]

(* Creating a file: createConfigFileGroupIfAbsent, then the insert.       *)

\* GetConfigFileGroup: an existing group is returned as success and the
\* file is inserted; otherwise CreateConfigFileGroup is called.
FileStart(c, f) ==
    /\ pc[c] = "idle"
    /\ f \notin files
    /\ want' = [want EXCEPT ![c] = f]
    /\ pc' = [pc EXCEPT ![c] = IF group # 0 THEN "fileInsert" ELSE "createRead"]
    /\ UNCHANGED <<group, nextId, files, off, page, gid>>

FileInsert(c) ==
    /\ pc[c] = "fileInsert"
    /\ files' = files \cup {want[c]}
    /\ Return(c)
    /\ UNCHANGED <<group, nextId>>

(* CreateConfigFileGroup.                                                 *)

\* GetConfigFileGroup finds no group: go on to create it.
CreateRead(c) ==
    /\ pc[c] \in {"idle", "createRead"}
    /\ group = 0
    /\ pc' = [pc EXCEPT ![c] = "createWrite"]
    /\ UNCHANGED <<group, nextId, files, want, off, page, gid>>

\* GetConfigFileGroup finds the group: ExistedResource.
CreateExisted(c) ==
    /\ pc[c] \in {"idle", "createRead"}
    /\ group # 0
    /\ Return(c)
    /\ UNCHANGED <<group, nextId, files>>

\* CreateConfigFileGroup writes a row with a fresh id.
CreateWrite(c) ==
    /\ pc[c] = "createWrite"
    /\ group = 0
    /\ nextId <= MaxGroupId
    /\ group' = nextId
    /\ nextId' = nextId + 1
    /\ gid' = [gid EXCEPT ![c] = nextId]
    /\ pc' = [pc EXCEPT ![c] = "createHook"]
    /\ UNCHANGED <<files, want, off, page>>

\* The store call fails (a row of that name exists): StoreLayerException.
CreateFail(c) ==
    /\ pc[c] = "createWrite"
    /\ Return(c)
    /\ UNCHANGED <<group, nextId, files>>

(* DeleteConfigFileGroup.                                                 *)

\* QueryConfigFilesByGroup from startOffset (0 at the start of the loop).
DelQuery(c) ==
    /\ pc[c] \in {"idle", "delQuery"}
    /\ page' = [page EXCEPT ![c] = Page(off[c])]
    /\ pc' = [pc EXCEPT ![c] = "delBatch"]
    /\ UNCHANGED <<group, nextId, files, want, off, gid>>

\* BatchDeleteConfigFile of the page; a full page means there may be more,
\* and startOffset advances past it.
DelBatch(c) ==
    /\ pc[c] = "delBatch"
    /\ files' = files \ page[c]
    /\ LET hasMore == Cardinality(page[c]) >= MaxPageSize IN
       /\ pc' = [pc EXCEPT ![c] = IF hasMore THEN "delQuery" ELSE "delGet"]
       /\ off' = [off EXCEPT ![c] = IF hasMore THEN @ + MaxPageSize ELSE @]
    /\ UNCHANGED <<group, nextId, want, page, gid>>

\* Mutant: the hooks are passed a group without its id.
DelGetNoId(c) ==
    /\ pc[c] = "delGet"
    /\ group # 0
    /\ pc' = [pc EXCEPT ![c] = "delGroup"]
    /\ UNCHANGED <<group, nextId, files, want, off, page, gid>>

\* GetConfigFileGroup: the group read is the one the hooks will be told of.
DelGet(c) ==
    /\ pc[c] = "delGet"
    /\ group # 0
    /\ gid' = [gid EXCEPT ![c] = group]
    /\ pc' = [pc EXCEPT ![c] = "delGroup"]
    /\ UNCHANGED <<group, nextId, files, want, off, page>>

\* No group of that name: NotFoundResource.
DelNotFound(c) ==
    /\ pc[c] = "delGet"
    /\ group = 0
    /\ Return(c)
    /\ UNCHANGED <<group, nextId, files>>

\* DeleteConfigFileGroup(namespace, name) removes whatever row has the name.
DelGroup(c) ==
    /\ pc[c] = "delGroup"
    /\ group' = 0
    /\ pc' = [pc EXCEPT ![c] = "deleteHook"]
    /\ UNCHANGED <<nextId, files, want, off, page, gid>>

\* The query, the batch delete, the read or the delete returns an error.
DelFail(c) ==
    /\ pc[c] \in {"delQuery", "delBatch", "delGet", "delGroup"}
    /\ Return(c)
    /\ UNCHANGED <<group, nextId, files>>

(* UpdateConfigFileGroup.  Only the comment and the modifier are           *)
(* rewritten, which nothing here reads; a request finding no group returns  *)
(* NotFoundResource without effect.                                        *)

\* GetConfigFileGroup: the id read is the one the hooks will be told of.
UpdGet(c) ==
    /\ pc[c] = "idle"
    /\ group # 0
    /\ gid' = [gid EXCEPT ![c] = group]
    /\ pc' = [pc EXCEPT ![c] = "updWrite"]
    /\ UNCHANGED <<group, nextId, files, want, off, page>>

\* UpdateConfigFileGroup(toUpdateGroup) by namespace and name.
UpdWrite(c) ==
    /\ pc[c] = "updWrite"
    /\ pc' = [pc EXCEPT ![c] = "updateHook"]
    /\ UNCHANGED <<group, nextId, files, want, off, page, gid>>

\* The update returns an error: StoreLayerException.
UpdFail(c) ==
    /\ pc[c] = "updWrite"
    /\ Return(c)
    /\ UNCHANGED <<group, nextId, files>>

(* QueryConfigFileGroups by file name (queryByFileName): the files that    *)
(* match are read first, the groups they name are then read one by one and *)
(* handed to batchTransfer, which reads each group's namespace and name to *)
(* count its files.  With one group, the distinct names are that group's   *)
(* when a file matches; the page from offset 0 holds it, from offset 1     *)
(* nothing (offset >= total returns).                                      *)

\* queryConfigFileWithoutTags: no matching file, or an offset past the
\* groups, returns success with no group; an error is returned as is.
QryFiles(c) ==
    /\ pc[c] = "idle"
    /\ \E offset \in {0, 1} :
          pc' = [pc EXCEPT ![c] = IF files # {} /\ offset < 1
                                  THEN "qryGet" ELSE "idle"]
    /\ UNCHANGED <<group, nextId, files, want, off, page, gid>>

\* GetConfigFileGroup for the page's group: the row read, or nil (0) when
\* there is none; an error returns StoreLayerException.
QryGet(c) ==
    /\ pc[c] = "qryGet"
    /\ \/ /\ gid' = [gid EXCEPT ![c] = group]
          /\ pc' = [pc EXCEPT ![c] = "qryTransfer"]
          /\ UNCHANGED <<want, off, page>>
       \/ Return(c)
    /\ UNCHANGED <<group, nextId, files>>

\* batchTransfer: CountByConfigFileGroup(group.Namespace, group.Name) and
\* the response; a nil group is dereferenced, and the request ends there.
QryTransfer(c) ==
    /\ pc[c] = "qryTransfer"
    /\ Return(c)
    /\ UNCHANGED <<group, nextId, files>>

(* afterConfigGroupResource.                                              *)

\* The hooks run after the store write; a created group that was asked for
\* by a file-creating request goes on to insert the file.
HookOK(c) ==
    /\ pc[c] \in {"createHook", "deleteHook", "updateHook"}
    /\ IF pc[c] = "createHook" /\ want[c] # NoFile
       THEN /\ pc' = [pc EXCEPT ![c] = "fileInsert"]
            /\ gid' = [gid EXCEPT ![c] = 0]
            /\ UNCHANGED <<want, off, page>>
       ELSE Return(c)
    /\ UNCHANGED <<group, nextId, files>>

\* A hook returns an error: ExecuteException, after the store write.
HookFail(c) ==
    /\ HookCanFail
    /\ pc[c] \in {"createHook", "deleteHook", "updateHook"}
    /\ Return(c)
    /\ UNCHANGED <<group, nextId, files>>

Next ==
    \E c \in Clients :
        \/ \E f \in Files : FileStart(c, f)
        \/ FileInsert(c)
        \/ CreateRead(c) \/ CreateExisted(c) \/ CreateWrite(c) \/ CreateFail(c)
        \/ DelQuery(c) \/ DelBatch(c) \/ DelGet(c) \/ DelNotFound(c)
        \/ DelGroup(c) \/ DelFail(c)
        \/ UpdGet(c) \/ UpdWrite(c) \/ UpdFail(c)
        \/ QryFiles(c) \/ QryGet(c) \/ QryTransfer(c)
        \/ HookOK(c) \/ HookFail(c)

Spec == Init /\ [][Next]_vars

-----------------------------------------------------------------------------
TypeOK ==
    /\ group \in 0..MaxGroupId
    /\ nextId \in 1..MaxGroupId + 1
    /\ files \subseteq Files
    /\ pc \in [Clients -> PCs]
    /\ want \in [Clients -> Files \cup {NoFile}]
    /\ off \in [Clients -> Nat]
    /\ page \in [Clients -> SUBSET Files]
    /\ \A c \in Clients :
          pc[c] \in {"createHook", "deleteHook", "updateHook"} => gid[c] \in 1..MaxGroupId

\* batchTransfer is never handed a group GetConfigFileGroup did not find:
\* every group name a group query takes from the files names a group that
\* still exists when it is read (the handlers treat a nil group as not
\* found everywhere else; batchTransfer dereferences it).
QueryGroupFound == \A c \in Clients : pc[c] = "qryTransfer" => gid[c] # 0

=============================================================================
