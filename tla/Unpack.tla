--------------------------------- MODULE Unpack ---------------------------------
(***************************************************************************)
(* Unpacking a cask's download (cask/unpack.rs): what kind of container a   *)
(* file is, the disk images that are attached, read and detached again, and *)
(* the archives within archives that are unwrapped to the last.             *)
(***************************************************************************)
EXTENDS Naturals, FiniteSets

CONSTANTS
    Boxes,     \* files that may be containers
    Shape,     \* [Boxes -> [magic, ext, form, holds, mounts, eula]]: its first bytes, the
               \* end of its name, what it is, what it holds, and for an image where
    Dirs,      \* directories
    Metadata,  \* DMG_METADATA, links to SYSTEM_DIRS and, in a zip, __MACOSX
    Named,     \* the boxes `container nested:` may name
    MaxDepth,  \* bound: 8 in the code
    MaxTrouble,\* bound: tools that fail and kills
    None

VARIABLES
    attached,  \* the images that are attached
    dest,      \* what lies in the staged directory
    run,       \* [pc, box, kind, nested, depth, got, mounts, failed]
    top,       \* the download, its `container type:` and nested container
    trouble

vars == <<attached, dest, run, top, trouble>>

Trouble == trouble < MaxTrouble /\ trouble' = trouble + 1
At(pc) == run.pc = pc /\ UNCHANGED top
Goto(pc) == run' = [run EXCEPT !.pc = pc]
Fail == run' = [run EXCEPT !.pc = "end", !.failed = TRUE]

-------------------------------------------------------------------------------
(* detect_container *)

\* What the name says is asked last, except of a zip that is named a package.
\* Mutant: it is asked first.
KindByName(b, type) ==
    IF type # None THEN type ELSE IF Shape[b].ext # None THEN Shape[b].ext
    ELSE IF Shape[b].magic # None THEN Shape[b].magic ELSE "naked"
Kind(b, type) ==
    IF type # None THEN type
    ELSE IF Shape[b].magic = "zip" /\ Shape[b].ext = "pkg" THEN "pkg"
    ELSE IF Shape[b].magic # None THEN Shape[b].magic
    ELSE IF Shape[b].ext # None THEN Shape[b].ext ELSE "naked"

\* unpack_container_args: the outer container is not unwrapped where an inner
\* one is named.
Start ==
    /\ run.pc = "start"
    /\ \E b \in Boxes, type \in {None, "tar", "naked"}, nested \in Named \cup {None} :
         /\ run' = [run EXCEPT !.pc = "open", !.box = b, !.kind = Kind(b, type), !.nested = nested]
         /\ top' = [box |-> b, type |-> type, nested |-> nested]
    /\ UNCHANGED <<attached, dest, trouble>>

\* extract_nestedly, extract; of what is wrapped no more than MaxDepth levels
\* Mutant: the last level counts.
TooDeepByOne(depth) == depth >= MaxDepth
TooDeep(depth) == depth > MaxDepth
Open ==
    /\ At("open")
    /\ IF run.nested = None /\ TooDeep(run.depth) THEN Fail /\ UNCHANGED dest
       ELSE IF run.kind \in {"pkg", "naked"}
       THEN IF run.nested = None THEN Goto("end") /\ dest' = dest \cup {run.box}
            ELSE run' = [run EXCEPT !.pc = "look", !.got = {run.box}] /\ UNCHANGED dest
       ELSE Goto(IF run.kind = "dmg" THEN "attach" ELSE "extract") /\ UNCHANGED dest
    /\ UNCHANGED <<attached, trouble>>
\* extract_zip, extract_tar: ditto fails on what is not its own, tar can read a zip.
Reads(tool, form) == form = tool \/ (tool = "tar" /\ form = "zip")
Extract ==
    /\ At("extract")
    /\ \/ /\ Reads(run.kind, Shape[run.box].form) /\ UNCHANGED trouble
          /\ run' = [run EXCEPT !.pc = "look",
                       !.got = IF run.kind = "zip" THEN Shape[run.box].holds \ Metadata ELSE Shape[run.box].holds]
       \/ ~Reads(run.kind, Shape[run.box].form) /\ Fail /\ UNCHANGED trouble
       \/ Trouble /\ Fail
    /\ UNCHANGED <<attached, dest>>

-------------------------------------------------------------------------------
(* extract_dmg *)

\* is_system_dir_symlink, DMG_METADATA
Copied(b) == Shape[b].holds \ Metadata

\* An image that asks for a licence to be accepted is converted first.
Attach ==
    /\ At("attach")
    /\ \/ /\ Shape[run.box].form = "dmg" /\ ~Shape[run.box].eula /\ UNCHANGED trouble
          /\ attached' = {run.box}
          /\ run' = [run EXCEPT !.pc = "mounted", !.mounts = Shape[run.box].mounts]
       \/ Shape[run.box].eula /\ Goto("convert") /\ UNCHANGED <<attached, trouble>>
       \/ Shape[run.box].form # "dmg" /\ Fail /\ UNCHANGED <<attached, trouble>>
       \/ Trouble /\ Fail /\ UNCHANGED attached
    /\ UNCHANGED dest
Convert ==
    /\ At("convert")
    /\ \/ /\ attached' = {run.box} /\ UNCHANGED trouble
          /\ run' = [run EXCEPT !.pc = "mounted", !.mounts = Shape[run.box].mounts]
       \/ Trouble /\ Fail /\ UNCHANGED attached
    /\ UNCHANGED dest
\* Without a mount point there is nothing to copy, or to detach.
Mounted ==
    /\ At("mounted")
    /\ IF run.mounts = {} THEN Fail ELSE run' = [run EXCEPT !.pc = "copy", !.got = {}]
    /\ UNCHANGED <<attached, dest, trouble>>
\* What cannot be copied is an error, but the image is detached all the same.
\* Mutant: the error comes first.
CopyOrFail ==
    /\ At("copy")
    /\ \/ run' = [run EXCEPT !.pc = "detach", !.got = Copied(run.box)] /\ UNCHANGED trouble
       \/ Trouble /\ Fail
    /\ UNCHANGED <<attached, dest>>
Copy ==
    /\ At("copy")
    /\ \/ run' = [run EXCEPT !.pc = "detach", !.got = Copied(run.box)] /\ UNCHANGED trouble
       \/ Trouble /\ run' = [run EXCEPT !.pc = "detach", !.failed = TRUE]
    /\ UNCHANGED <<attached, dest>>
\* One mount point detaches the image.  Whether it did is not looked at.
Detach ==
    /\ At("detach") /\ run.mounts # {}
    /\ \E m \in run.mounts :
         /\ \/ attached' = {} /\ UNCHANGED trouble
            \/ Trouble /\ UNCHANGED attached
         /\ run' = [run EXCEPT !.mounts = @ \ {m}]
    /\ UNCHANGED dest
Detached ==
    /\ At("detach") /\ run.mounts = {}
    /\ Goto(IF run.failed THEN "end" ELSE "look")
    /\ UNCHANGED <<attached, dest, trouble>>

-------------------------------------------------------------------------------
(* extract_nestedly, after a level has been extracted *)

\* A single file that is a container itself is unwrapped again.
\* Mutant: the first container among what there is.
WrappedAmong(got) == {b \in got \ Dirs : Kind(b, None) # "naked"}
Wrapped(got) == {b \in got \ Dirs : got = {b} /\ Kind(b, None) # "naked"}
Look ==
    /\ At("look")
    /\ IF run.nested # None
       THEN IF run.nested \in run.got
            THEN run' = [run EXCEPT !.pc = "open", !.box = run.nested, !.kind = Kind(run.nested, None), !.nested = None]
            ELSE Fail
       ELSE IF Wrapped(run.got) # {}
       THEN \E b \in Wrapped(run.got) :
              run' = [run EXCEPT !.pc = "open", !.box = b, !.kind = Kind(b, None), !.depth = @ + 1]
       ELSE Goto("move")
    /\ UNCHANGED <<attached, dest, trouble>>
Move ==
    /\ At("move")
    /\ \/ dest' = dest \cup run.got /\ Goto("end") /\ UNCHANGED trouble
       \/ \E some \in SUBSET run.got : some # run.got /\ Trouble /\ dest' = dest \cup some /\ Fail
    /\ UNCHANGED attached

Kill ==
    /\ run.pc \notin {"start", "end", "killed"} /\ Trouble /\ Goto("killed")
    /\ UNCHANGED <<attached, dest, top>>

Init ==
    /\ attached = {} /\ dest = {} /\ trouble = 0 /\ top = None
    /\ run = [pc |-> "start", box |-> None, kind |-> None, nested |-> None, depth |-> 0,
              got |-> {}, mounts |-> {}, failed |-> FALSE]
Next ==
    \/ Start \/ Open \/ Extract \/ Attach \/ Convert \/ Mounted \/ Copy \/ Detach \/ Detached
    \/ Look \/ Move \/ Kill
Spec == Init /\ [][Next]_vars

-------------------------------------------------------------------------------
(* Properties *)

\* What a container holds in the end: its own files, or those of the one
\* container it is wrapped around; of an installer package and of what is no
\* container, itself.
Own(b) == IF Shape[b].form \in {"zip", "dmg"} THEN Shape[b].holds \ Metadata ELSE Shape[b].holds
Innermost[b \in Boxes] ==
    IF Shape[b].form \in {"pkg", "naked"} THEN {b}
    ELSE IF \E c \in Boxes : Own(b) = {c} THEN Innermost[CHOOSE c \in Boxes : Own(b) = {c}] ELSE Own(b)
\* A download that was unpacked without an error is there with all it holds and
\* nothing else, however it was wrapped and named, unless its cask says what it is.
UnpackedIsInnermost ==
    run.pc = "end" /\ ~run.failed /\ top.type = None =>
        dest = Innermost[IF top.nested = None THEN top.box ELSE top.nested]
\* It is unpacked when nothing fails: nesting alone is not refused.
NothingIsRefused ==
    run.pc = "end" /\ trouble = 0 /\ top.type = None /\ Shape[top.box].mounts # {}
      /\ (top.nested = None \/ top.nested \in Own(top.box)) => ~run.failed
\* Whatever fails, an image that was attached is detached before the command
\* goes on, or hdiutil has refused to, for each mount point the image has.
NothingStaysAttached ==
    run.pc \in {"look", "open", "end"} /\ attached # {} => run.mounts = {} /\ (trouble = 0 => Shape[run.box].mounts = {})
UnpackIsSound == UnpackedIsInnermost /\ NothingIsRefused /\ NothingStaysAttached
=================================================================================
