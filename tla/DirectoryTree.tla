--------------------------- MODULE DirectoryTree ---------------------------
(***************************************************************************)
(* 7.file_dir_opt/dir.c: a program that creates my_directory/dir1/dir2 if  *)
(* my_directory does not exist and removes my_directory with all that is   *)
(* in it if it does.  It is run several times, also at the same time and   *)
(* while a user works in the directory, and it may be killed.  A path is   *)
(* the sequence of its names; every call of the system is a step.          *)
(***************************************************************************)
EXTENDS Integers, Sequences

CONSTANTS Runs,             (* the runs of the program                      *)
          MaxEdits          (* bound: how often the user creates something  *)

ASSUME DirectoryAssumption == MaxEdits \in Nat

VARIABLES dirs, files,      (* the paths that exist                         *)
          pc,               (* of a run: not started, stat, create, remove,
                               ended                                        *)
          part,             (* of a creating run: the prefix it comes to    *)
          frames,           (* of a removing run: its calls of
                               rmdir_recursive, the innermost last          *)
          failed,           (* create_dir_recursive has returned -1         *)
          disturbed,        (* history: what a run relies on was undone     *)
          edits             (* history: what the user has created           *)

treeVars == <<dirs, files, pc, part, frames, failed, disturbed, edits>>

create_path == <<"my_directory", "dir1", "dir2">>
top_path == <<"my_directory">>
Names == {"dir1", "dir2"}

Parent(path) == SubSeq(path, 1, Len(path) - 1)
Exists(path) == path \in dirs \cup files
Children(path) == {n \in Names : Exists(Append(path, n))}
Innermost(r) == frames[r][Len(frames[r])]
Caller(r) == SubSeq(frames[r], 1, Len(frames[r]) - 1)

TreeInit ==
    /\ dirs = {} /\ files = {} /\ edits = 0
    /\ pc = [r \in Runs |-> "not started"]
    /\ part = [r \in Runs |-> 0]
    /\ frames = [r \in Runs |-> <<>>]
    /\ failed = [r \in Runs |-> FALSE]
    /\ disturbed = [r \in Runs |-> FALSE]

\* History: something was created, which a removing run may miss, or removed,
\* on which a creating run may count.
Disturb(who) == disturbed' = [r \in Runs |-> disturbed[r] \/ r \in who]
Creators == {r \in Runs : pc[r] = "create"}
Removers == {r \in Runs : pc[r] = "remove"}

-----------------------------------------------------------------------------
start_main(r) ==
    /\ pc[r] = "not started"
    /\ pc' = [pc EXCEPT ![r] = "stat"]
    /\ UNCHANGED <<dirs, files, part, frames, failed, disturbed, edits>>

\* main, lines 109-122: directory_exists (lines 17-26) decides.  A file of this
\* name is no directory.
directory_exists(r) ==
    /\ pc[r] = "stat"
    /\ IF top_path \in dirs
         THEN /\ pc' = [pc EXCEPT ![r] = "remove"]
              /\ frames' = [frames EXCEPT ![r] = <<[path |-> top_path, open |-> FALSE, entries |-> {}]>>]
              /\ UNCHANGED part
         ELSE /\ pc' = [pc EXCEPT ![r] = "create"]
              /\ part' = [part EXCEPT ![r] = 1]
              /\ UNCHANGED frames
    /\ UNCHANGED <<dirs, files, failed, disturbed, edits>>

\* Mutant: a directory that another run has made in the meantime is an error.
StrictError(path) == Exists(path) \/ (Len(path) > 1 /\ Parent(path) \notin dirs)

\* Lines 43 and 56: EEXIST is no error, whatever it is that exists.
mkdir_error(path) == Len(path) > 1 /\ Parent(path) \notin dirs

\* create_dir_recursive, lines 38-61: mkdir of one prefix after the other, up to
\* the first error.
mkdir(r) ==
    LET path == SubSeq(create_path, 1, part[r])
        created == ~Exists(path) /\ ~mkdir_error(path)
        last == path = create_path \/ mkdir_error(path)
    IN /\ pc[r] = "create"
       /\ dirs' = IF created THEN dirs \cup {path} ELSE dirs
       /\ Disturb(IF created THEN Removers ELSE {})
       /\ failed' = [failed EXCEPT ![r] = mkdir_error(path)]
       /\ part' = [part EXCEPT ![r] = @ + 1]
       /\ pc' = [pc EXCEPT ![r] = IF last THEN "ended" ELSE @]
       /\ UNCHANGED <<files, frames, edits>>

\* rmdir_recursive returns; main returns after the outermost call.
Return(r) ==
    /\ frames' = [frames EXCEPT ![r] = Caller(r)]
    /\ pc' = [pc EXCEPT ![r] = IF Len(frames[r]) = 1 THEN "ended" ELSE @]

\* Lines 73-75, and the entries that readdir will hand out: a directory is read
\* as it was when it was opened, with the types its entries had.
opendir(r) ==
    LET path == Innermost(r).path
    IN /\ pc[r] = "remove" /\ ~Innermost(r).open
       /\ IF path \in dirs
            THEN /\ frames' = [frames EXCEPT ![r][Len(frames[r])] =
                                 [path |-> path, open |-> TRUE,
                                  entries |-> {[name |-> n, is_dir |-> Append(path, n) \in dirs] :
                                                 n \in Children(path)}]]
                 /\ UNCHANGED pc
            ELSE Return(r)
       /\ UNCHANGED <<dirs, files, part, failed, disturbed, edits>>

\* Lines 77-91: the entry is removed, a directory by a call for it.
readdir(r) ==
    /\ pc[r] = "remove" /\ Innermost(r).open
    /\ \E e \in Innermost(r).entries :
         LET full_path == Append(Innermost(r).path, e.name)
             rest == [Innermost(r) EXCEPT !.entries = @ \ {e}]
         IN IF e.is_dir
              THEN /\ frames' = [frames EXCEPT ![r] =
                        Caller(r) \o <<rest, [path |-> full_path, open |-> FALSE, entries |-> {}]>>]
                   /\ UNCHANGED <<files, disturbed>>
              ELSE /\ frames' = [frames EXCEPT ![r] = Append(Caller(r), rest)]
                   /\ files' = files \ {full_path}
                   /\ Disturb(IF full_path \in files THEN Creators ELSE {})
    /\ UNCHANGED <<dirs, pc, part, failed, edits>>

\* Lines 95-97, remove_top_dir being 1 in every call: rmdir fails when there is
\* something in the directory again, and nobody asks.
rmdir(r) ==
    /\ pc[r] = "remove" /\ Innermost(r).open /\ Innermost(r).entries = {}
    /\ LET path == Innermost(r).path
           empty == path \in dirs /\ Children(path) = {}
       IN /\ dirs' = IF empty THEN dirs \ {path} ELSE dirs
          /\ Disturb(IF empty THEN Creators ELSE {})
    /\ Return(r)
    /\ UNCHANGED <<files, part, failed, edits>>

\* The program is killed.
killed(r) ==
    /\ pc[r] \in {"stat", "create", "remove"}
    /\ pc' = [pc EXCEPT ![r] = "killed"]
    /\ UNCHANGED <<dirs, files, part, frames, failed, disturbed, edits>>

\* A user puts a file or a directory into the tree.
UserCreates ==
    /\ edits < MaxEdits /\ edits' = edits + 1
    /\ \E path \in {top_path} \cup {Append(d, n) : d \in dirs, n \in Names} :
         /\ Len(path) <= Len(create_path) /\ ~Exists(path)
         /\ \/ dirs' = dirs \cup {path} /\ UNCHANGED files
            \/ files' = files \cup {path} /\ UNCHANGED dirs
         /\ Disturb(Removers)
    /\ UNCHANGED <<pc, part, frames, failed>>

TreeNext ==
    \/ \E r \in Runs :
         start_main(r) \/ directory_exists(r) \/ mkdir(r) \/ opendir(r)
         \/ readdir(r) \/ rmdir(r) \/ killed(r)
    \/ UserCreates

TreeSpec == TreeInit /\ [][TreeNext]_treeVars
-----------------------------------------------------------------------------
\* When a run ends it has done its part, whatever other runs did meanwhile or
\* had left half done when they were killed: a removing run during which nothing
\* was created leaves nothing of my_directory ("it should be empty now", line
\* 94); a creating run during which nothing was removed, and in whose way no file
\* lies, has the whole path and reports no error.
RunsDoTheirPart ==
    [][\A r \in Runs : pc[r] # "ended" /\ pc'[r] = "ended" /\ ~disturbed'[r] =>
         /\ pc[r] = "remove" => ~Exists(top_path)'
         /\ pc[r] = "create" /\ (\A k \in 1..Len(create_path) : SubSeq(create_path, 1, k) \notin files')
              => ~failed'[r] /\ create_path \in dirs']_treeVars

(***************************************************************************)
(* The inductive invariant behind it.                                      *)
(***************************************************************************)
Frame == [path : Seq({"my_directory"} \cup Names), open : BOOLEAN,
          entries : SUBSET [name : Names, is_dir : BOOLEAN]]

TreeTypeOK ==
    /\ pc \in [Runs -> {"not started", "stat", "create", "remove", "ended", "killed"}]
    /\ part \in [Runs -> Nat] /\ frames \in [Runs -> Seq(Frame)]
    /\ failed \in [Runs -> BOOLEAN] /\ disturbed \in [Runs -> BOOLEAN]
    /\ edits \in Nat /\ dirs \cap files = {}

\* What a creating run has come past is there, unless something was removed.
CreateInv ==
    \A r \in Runs : pc[r] = "create" =>
        /\ part[r] \in 1..Len(create_path)
        /\ ~disturbed[r] => \A k \in 1..(part[r] - 1) : Exists(SubSeq(create_path, 1, k))

\* A path that was a directory, or a file, when it was looked at, is no other
\* thing by now.
StillOfType(path, is_dir) == path \notin IF is_dir THEN files ELSE dirs

\* The i-th of the calls fs: what there is in a directory that was opened is yet
\* to be read, or the next call is for it.
CallInv(fs, i) ==
    /\ StillOfType(fs[i].path, TRUE)
    /\ i < Len(fs) => fs[i].open
    /\ fs[i].open =>
         /\ \A e \in fs[i].entries : StillOfType(Append(fs[i].path, e.name), e.is_dir)
         /\ \A n \in Children(fs[i].path) :
              \/ \E e \in fs[i].entries : e.name = n
              \/ i < Len(fs) /\ fs[i + 1].path = Append(fs[i].path, n)

\* So it is with each call of a removing run, unless something was created.
RemoveInv ==
    \A r \in Runs : pc[r] = "remove" =>
        /\ frames[r] # <<>> /\ frames[r][1].path = top_path
        /\ ~disturbed[r] => \A i \in 1..Len(frames[r]) : CallInv(frames[r], i)

TreeIInv == TreeTypeOK /\ CreateInv /\ RemoveInv
=============================================================================
