----------------------------- MODULE StagedKit -----------------------------
(***************************************************************************)
(* openKitArtifact of tck/args.go: loading a kit directory with the        *)
(* argument references of its spec file and of everything under files/     *)
(* replaced.  When anything is to be replaced the whole kit is recreated   *)
(* in a temporary tree, that tree is loaded by spec.OpenFromDirectory,     *)
(* which opens file contents lazily, every content is read, and the tree   *)
(* is removed.  Otherwise the kit is loaded where it is.                   *)
(*                                                                         *)
(* copyKitRenamed of tck/e2e_rename.go: the same tree written elsewhere    *)
(* with another name in its spec and nothing replaced, then loaded so.     *)
(*                                                                         *)
(* A directory tree maps paths to nodes.  Of a mode only the owner's write *)
(* bit is kept.                                                            *)
(***************************************************************************)
EXTENDS KitArgs, FiniteSets

CONSTANTS
    Paths,       \* paths of a kit, relative to its root
    Ancestors,   \* Ancestors[p]: the directories above p, the root not one of them
    Order,       \* Paths in the order WalkDir visits them
    Spec,        \* the path of spec.yaml
    Specs,       \* Spec and the paths it may be a link to
    Files, Home, \* the paths files and files/home
    NewName,     \* the name a copy is given
    Calls,       \* what may be loaded: a tree, its arguments, copied or not
    MaxFaults    \* bound on the failures of a system call

Modes == {"rw", "ro"}

Dirs == [kind : {"dir"}, mode : Modes]
Nodes(p) ==
    Dirs
    \cup [kind : {"file"}, mode : Modes, text : IF p \in Specs THEN Documents ELSE Text]
    \cup [kind : {"link"}, to : Paths \cup {None}, abs : BOOLEAN]
    \cup {[kind |-> "other"]}

IsTree(tree) ==
    DOMAIN tree = Paths /\ \A p \in Paths : tree[p] = None \/ tree[p] \in Nodes(p)

IsKind(tree, p, kind) == tree[p] # None /\ tree[p].kind = kind

(* Where a path leads: links of a kit do not lead to links.                *)
Real(tree, p) == IF IsKind(tree, p, "link") THEN tree[p].to ELSE p

(* What lies in a directory lies in directories only, and WalkDir visits   *)
(* them first; spec.yaml is at the root and in none, and what it may be a  *)
(* link to is not under files/.                                            *)
ASSUME StagedKitAssumption ==
    /\ Ancestors \in [Paths -> SUBSET Paths]
    /\ \A p \in Paths : \A d \in Ancestors[p] : Ancestors[d] \subseteq Ancestors[p]
    /\ Order \in Seq(Paths) /\ Len(Order) = Cardinality(Paths)
    /\ Paths = {Order[i] : i \in DOMAIN Order}
    /\ \A i \in DOMAIN Order : \A d \in Ancestors[Order[i]] : \E j \in 1 .. i - 1 : Order[j] = d
    /\ Ancestors[Spec] = {} /\ \A p \in Paths : Spec \notin Ancestors[p]
    /\ Spec \in Specs /\ Specs \subseteq Paths /\ \A p \in Specs : Files \notin Ancestors[p]
    /\ Files \in Paths /\ Home \in Paths /\ Files \in Ancestors[Home]
    /\ MaxFaults \in Nat

(* A kit has a spec file that parses; without one openKitArtifact leaves   *)
(* the error to the loader.  No name a kit may have holds an opener.       *)
ASSUME KitsHaveSpecs ==
    /\ NewName \in Text /\ \A i \in DOMAIN NewName : NewName[i] # Open
    /\ \A c \in Calls :
          /\ IsTree(c.tree) /\ c.copied \in BOOLEAN
          /\ Real(c.tree, Spec) \in Specs /\ IsKind(c.tree, Real(c.tree, Spec), "file")
          /\ \A p \in Paths : c.tree[p] # None =>
                \A d \in Ancestors[p] : IsKind(c.tree, d, "dir")
          /\ \A p \in Paths : IsKind(c.tree, p, "link") /\ c.tree[p].to # None =>
                ~IsKind(c.tree, c.tree[p].to, "link")
          /\ \A n \in DOMAIN c.decls : c.decls[n].accepts \subseteq Text

ASSUME NoneIsNothing ==
    /\ None \notin Paths /\ None \notin Text /\ None \notin Documents
    /\ \A p \in Paths : None \notin Nodes(p)

VARIABLES
    call,     \* what is loaded: the author's tree, declarations, tck.yaml's args
    kit,      \* the directory opened: the author's, or the renamed copy
    staging,  \* the tree that is written: the copy, or the staging tree
    pc,
    next,     \* the entry of Order to write or to narrow next
    from,     \* the tree that is loaded: the kit's or the staging one
    read,     \* the spec document that was decoded
    files,    \* files[p]: an ArtifactFile of the artifact
    pending,  \* contents read by Materialize and not yet stored
    faults,   \* system calls that failed
    result

loading == <<call, kit, staging, pc, next, from, read, files, pending, faults, result>>

Empty == [p \in Paths |-> None]
In(p, dir) == dir \in Ancestors[p]
Parent(p) == CHOOSE d \in Ancestors[p] : Ancestors[d] = Ancestors[p] \ {d}
MayWriteIn(tree, p) == \A d \in Ancestors[p] : d = Parent(p) => tree[d].mode = "rw"

(* The regular files whose bytes are expanded.                             *)
Expandable == {p \in Paths : In(p, Files) /\ p # Spec /\ IsKind(kit, p, "file")}
Document(tree) == tree[Real(tree, Spec)].text
Values == resolveKitArgs(call.decls, call.supplied)

(* A file of the artifact: where OpenFromDirectory found it, its mode, and *)
(* its content once that was read; a link may lead to the spec.            *)
ArtifactFile(f) ==
    /\ DOMAIN f = {"at", "mode", "text"}
    /\ f.at \in Paths /\ f.mode \in Modes \cup {None}
    /\ f.text = None \/ f.text \in Text \cup Documents

(* Types; and the tree that is loaded holds every path of the kit that is  *)
(* a file, a directory or a link.                                          *)
TypeOK ==
    /\ IsTree(kit) /\ IsTree(staging)
    /\ pc \in {"rename", "copy", "chmod", "expand", "write", "narrow", "load",
               "materialize", "remove", "done"}
    /\ next \in 0 .. Len(Order) + 1
    /\ from \in {"kit", "staging"}
    /\ read = None \/ read \in Documents
    /\ DOMAIN files \subseteq Paths /\ \A p \in DOMAIN files : ArtifactFile(files[p])
    /\ pending \subseteq DOMAIN files
    /\ faults \in 0 .. MaxFaults
    /\ result \in {"none", "artifact", "error"}
    /\ pc \in {"load", "materialize"} /\ from = "staging" =>
          \A p \in Paths : staging[p] = None <=> kit[p] = None \/ IsKind(kit, p, "other")

Init ==
    /\ call \in Calls
    /\ kit = call.tree /\ staging = Empty
    /\ pc = IF call.copied THEN "rename" ELSE "expand"
    /\ next = 1 /\ from = "kit" /\ read = None
    /\ files = <<>> /\ pending = {} /\ faults = 0 /\ result = "none"
-----------------------------------------------------------------------------
Fault == faults < MaxFaults /\ faults' = faults + 1
NoFault == UNCHANGED faults

(* Return, through the deferred removal when there is a staging tree.      *)
Return(value) ==
    /\ pc' = IF from = "staging" THEN "remove" ELSE "done"
    /\ result' = value

(* resolveKitArgs, expandSpecDocument, then the walk of planKitTree, which *)
(* reads every file under files/: any of them may refuse the kit.  What is *)
(* substituted nowhere is not staged.  A staging tree is made last.        *)
Accepted ==
    /\ Resolvable(call.decls, call.supplied)
    /\ ~RefusedSpec(Document(kit), Values)
    /\ \A p \in Expandable : ~Refused(kit[p].text, Values)

Substitutes ==
    \/ expandSpecDocument(Document(kit), Values) # Document(kit)
    \/ \E p \in Expandable : scanArgs(kit[p].text, Values).out # kit[p].text

ExpandKit ==
    /\ pc = "expand"
    /\ \/ ~Accepted /\ Return("error") /\ NoFault /\ UNCHANGED from
       \/ /\ Accepted /\ ~Substitutes
          /\ pc' = "load" /\ NoFault /\ UNCHANGED <<from, result>>
       \/ /\ Accepted /\ Substitutes
          /\ pc' = "write" /\ from' = "staging" /\ NoFault /\ UNCHANGED result
       \/ Return("error") /\ Fault /\ UNCHANGED from
    /\ UNCHANGED <<call, kit, staging, next, read, files, pending>>

(* copyKitRenamed: the spec renamed, the tree planned, its root made.      *)
RenameSpec ==
    /\ pc = "rename"
    /\ \/ /\ Renamable(Document(kit))
          /\ pc' = "copy" /\ from' = "staging" /\ NoFault /\ UNCHANGED result
       \/ ~Renamable(Document(kit)) /\ Return("error") /\ NoFault /\ UNCHANGED from
       \/ Return("error") /\ Fault /\ UNCHANGED from
    /\ UNCHANGED <<call, kit, staging, next, read, files, pending>>

SpecContent ==
    IF pc \in {"copy", "chmod"} THEN renamedSpec(Document(kit), NewName)
    ELSE expandSpecDocument(Document(kit), Values)
FileContent(p) ==
    IF pc \in {"copy", "chmod"} THEN kit[p].text ELSE scanArgs(kit[p].text, Values).out
StagedSpec ==
    [kind |-> "file", mode |-> kit[Real(kit, Spec)].mode, text |-> SpecContent]

StagedNarrow(p) ==    \* mutant: directories are created with their own mode
    IF p = Spec THEN StagedSpec
    ELSE IF p \in Expandable        THEN [kit[p] EXCEPT !.text = FileContent(p)]
    ELSE IF IsKind(kit, p, "other") THEN None
    ELSE kit[p]

StagedFilesOnly(p) ==    \* mutant: no file is copied that is not under files/
    IF p = Spec THEN StagedSpec
    ELSE IF IsKind(kit, p, "file") /\ ~In(p, Files) THEN None
    ELSE IF IsKind(kit, p, "dir")   THEN [kit[p] EXCEPT !.mode = "rw"]
    ELSE IF p \in Expandable        THEN [kit[p] EXCEPT !.text = FileContent(p)]
    ELSE IF IsKind(kit, p, "other") THEN None
    ELSE kit[p]

StagedLinkFirst(p) ==    \* mutant: the symlink case comes before the spec's
    IF IsKind(kit, p, "link") THEN kit[p]
    ELSE IF p = Spec                THEN StagedSpec
    ELSE IF IsKind(kit, p, "dir")   THEN [kit[p] EXCEPT !.mode = "rw"]
    ELSE IF p \in Expandable        THEN [kit[p] EXCEPT !.text = FileContent(p)]
    ELSE IF IsKind(kit, p, "other") THEN None
    ELSE kit[p]

(* A path as it is recreated: the spec as a file even when it is a link,   *)
(* directories wide enough to write into, links as they are.               *)
Staged(p) ==
    IF p = Spec THEN StagedSpec
    ELSE IF IsKind(kit, p, "dir")   THEN [kit[p] EXCEPT !.mode = "rw"]
    ELSE IF p \in Expandable        THEN [kit[p] EXCEPT !.text = FileContent(p)]
    ELSE IF IsKind(kit, p, "other") THEN None
    ELSE kit[p]

(* writeStaging, first loop.                                               *)
WriteEntry ==
    /\ pc \in {"copy", "write"}
    /\ LET p == Order[next]
           last == IF pc = "copy" THEN "chmod" ELSE "narrow"
       IN \/ /\ Staged(p) # None => MayWriteIn(staging, p)
             /\ staging' = [staging EXCEPT ![p] = Staged(p)]
             /\ next' = IF next = Len(Order) THEN next ELSE next + 1
             /\ pc' = IF next = Len(Order) THEN last ELSE pc
             /\ NoFault /\ UNCHANGED result
          \/ /\ Staged(p) # None
             /\ IF MayWriteIn(staging, p) THEN Fault ELSE NoFault
             /\ Return("error") /\ UNCHANGED <<staging, next>>
    /\ UNCHANGED <<call, kit, from, read, files, pending>>

(* writeStaging, second loop: directories get their modes, last one first. *)
NarrowEntry ==
    /\ pc \in {"chmod", "narrow"} /\ next > 0
    /\ LET p == Order[next]
       IN \/ /\ staging' = IF IsKind(kit, p, "dir")
                           THEN [staging EXCEPT ![p].mode = kit[p].mode] ELSE staging
             /\ next' = next - 1
             /\ pc' = IF next = 1 /\ pc = "narrow" THEN "load" ELSE pc
             /\ NoFault /\ UNCHANGED result
          \/ IsKind(kit, p, "dir") /\ Fault /\ Return("error") /\ UNCHANGED <<staging, next>>
    /\ UNCHANGED <<call, kit, from, read, files, pending>>

(* copyKitRenamed opens the copy as the suite opens a kit.                 *)
OpenCopy ==
    /\ pc = "chmod" /\ next = 0
    /\ kit' = staging /\ staging' = Empty
    /\ pc' = "expand" /\ next' = 1 /\ from' = "kit"
    /\ UNCHANGED <<call, read, files, pending, faults, result>>
-----------------------------------------------------------------------------
(* spec.OpenFromDirectory: the spec decoded and validated, every path that *)
(* is no directory under files/home listed with where it leads, which must *)
(* exist within the tree; contents are not read.                           *)
Loaded == IF from = "kit" THEN kit ELSE staging
Listed(tree) == {p \in Paths : In(p, Home) /\ tree[p] # None /\ ~IsKind(tree, p, "dir")}

(* An absolute link into the kit is an escape of the staging tree, and of  *)
(* a copy.                                                                 *)
Resolves(tree, p) ==
    IsKind(tree, p, "link") =>
        /\ tree[p].to # None /\ tree[tree[p].to] # None
        /\ tree[p].abs => from = "kit" /\ ~call.copied

FileAt(tree, p) ==
    LET real == Real(tree, p)
    IN [at |-> real,
        mode |-> IF IsKind(tree, real, "other") THEN None ELSE tree[real].mode,
        text |-> None]

OpenFromDirectory ==
    /\ pc = "load"
    /\ \/ /\ \A p \in Listed(Loaded) : Resolves(Loaded, p)
          /\ read' = Loaded[Real(Loaded, Spec)].text
          /\ files' = [p \in Listed(Loaded) |-> FileAt(Loaded, p)]
          /\ IF from = "kit" THEN Return("artifact")
             ELSE pc' = "materialize" /\ UNCHANGED result
          /\ NoFault
       \/ /\ \/ Fault
             \/ NoFault /\ \E p \in Listed(Loaded) : ~Resolves(Loaded, p)
          /\ Return("error") /\ UNCHANGED <<read, files>>
    /\ UNCHANGED <<call, kit, staging, next, from, pending>>

MaterializeNot ==    \* mutant: openKitArtifact does not call Materialize
    /\ pc = "materialize"
    /\ NoFault /\ Return("artifact")
    /\ UNCHANGED <<call, kit, staging, next, from, read, files, pending>>

(* Materialize: each content is read aside; all are stored when the last   *)
(* one was read.  A link to a directory was listed and cannot be read.     *)
Materialize ==
    /\ pc = "materialize"
    /\ \/ /\ pending = DOMAIN files
          /\ files' = [p \in DOMAIN files |-> [files[p] EXCEPT !.text = staging[files[p].at].text]]
          /\ pending' = {} /\ NoFault /\ Return("artifact")
       \/ \E p \in DOMAIN files \ pending :
            /\ \/ /\ IsKind(staging, files[p].at, "file")
                  /\ pending' = pending \cup {p}
                  /\ NoFault /\ UNCHANGED <<pc, result>>
               \/ /\ Fault \/ (NoFault /\ ~IsKind(staging, files[p].at, "file"))
                  /\ Return("error") /\ UNCHANGED pending
            /\ UNCHANGED files
    /\ UNCHANGED <<call, kit, staging, next, from, read>>

(* os.RemoveAll removes what lies in directories one may write in, and a   *)
(* directory once nothing is left in it.                                   *)
Stuck(tree, p) ==
    \E q \in Paths : /\ q = p \/ In(q, p)
                     /\ tree[q] # None /\ ~MayWriteIn(tree, q)
RemoveAll(tree) == [p \in Paths |-> IF Stuck(tree, p) THEN tree[p] ELSE None]

(* removeStaging: owner access first, on every directory.                  *)
Widen(tree) ==
    [p \in Paths |-> IF IsKind(tree, p, "dir") THEN [tree[p] EXCEPT !.mode = "rw"] ELSE tree[p]]

RemoveStagingAsIs ==    \* mutant: os.RemoveAll without the chmod
    /\ pc = "remove"
    /\ staging' = RemoveAll(staging)
    /\ pc' = "done"
    /\ UNCHANGED <<call, kit, next, from, read, files, pending, faults, result>>

RemoveStaging ==
    /\ pc = "remove"
    /\ staging' = RemoveAll(Widen(staging))
    /\ pc' = "done"
    /\ UNCHANGED <<call, kit, next, from, read, files, pending, faults, result>>

Load ==
    \/ RenameSpec \/ OpenCopy \/ ExpandKit \/ WriteEntry \/ NarrowEntry
    \/ OpenFromDirectory \/ Materialize \/ RemoveStaging
-----------------------------------------------------------------------------
(* No tree outlives the call that made it, whatever modes the kit's        *)
(* directories have and wherever the call failed.                          *)
StagingRemoved == pc = "done" => staging = Empty

(* An artifact is the author's kit with its references replaced, renamed   *)
(* when it was copied: the spec (read through a link or not) and every     *)
(* file under files/home, with the modes the author gave them, whether     *)
(* read by now or still to be read where they are.  A kit with a reference *)
(* that is malformed or undeclared never loads.                            *)
Content(f) ==
    IF f.text # None THEN f.text
    ELSE IF Loaded[f.at] = None THEN None ELSE Loaded[f.at].text
Written ==
    LET doc == Document(call.tree)
    IN IF call.copied THEN renamedSpec(doc, NewName) ELSE doc
AuthoredFiles == {p \in Paths : In(p, Files) /\ p # Spec /\ IsKind(call.tree, p, "file")}
LoadsAsWritten ==
    pc = "done" /\ result = "artifact" =>
        /\ DOMAIN read = DOMAIN Written
        /\ \A i \in DOMAIN Written :
              IF Written[i].key = ArgsKey THEN read[i] = Written[i]
              ELSE /\ Legal(Written[i].value, Values)
                   /\ read[i] = [Written[i] EXCEPT !.value = Substituted(@, Values)]
        /\ \A p \in AuthoredFiles :
              /\ Legal(call.tree[p].text, Values)
              /\ In(p, Home) =>
                    /\ p \in DOMAIN files
                    /\ files[p].mode = call.tree[p].mode
                    /\ Content(files[p]) = Substituted(call.tree[p].text, Values)

(* A sound kit: its references resolve, none is in a key, its links stay   *)
(* within it, and it has a name to change when it is copied.  Such a kit   *)
(* always loads unless a system call fails: read-only directories and      *)
(* files and whatever else lies beside files/ do not get in the way.       *)
Sound ==
    /\ Resolvable(call.decls, call.supplied)
    /\ \A p \in AuthoredFiles : Legal(call.tree[p].text, Values)
    /\ LET doc == Document(call.tree)
       IN /\ call.copied => Renamable(doc)
          /\ \A i \in DOMAIN doc : /\ ~opensArgRef(doc[i].key)
                                  /\ (doc[i].key # ArgsKey => Legal(doc[i].value, Values))
    /\ \A p \in Paths : IsKind(call.tree, p, "link") =>
          LET link == call.tree[p]
          IN ~link.abs /\ link.to # None /\ IsKind(call.tree, link.to, "file")
SoundKitLoads == pc = "done" /\ Sound /\ faults = 0 => result = "artifact"
=============================================================================
