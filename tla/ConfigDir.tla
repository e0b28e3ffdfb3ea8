----------------------------- MODULE ConfigDir -----------------------------
(***************************************************************************)
(* Config::LoadFromConfDir (wyze/config.cpp): which files of the directory *)
(* are read again.  For each file it keeps a modification time, but what   *)
(* it asks lstat for is the directory (absolute_path), whose time changes  *)
(* when files are created, renamed or removed, not when they are written.  *)
(* The argument force is not used.                                         *)
(***************************************************************************)
EXTENDS Integers, FiniteSets

CONSTANTS
    ConfFiles,
    MaxSecond,      \* bound: st_mtime counts seconds
    MaxVersion      \* bound: versions of each file

VARIABLES
    content,        \* file -> the version of its text
    second, dirTime,
    s_file2modifytime,
    loaded,         \* file -> the version that was applied last, 0 if none
    todo,           \* the files the running pass has not looked at
    hand,           \* the file between the test of its time and its loading
    hidden          \* files changed without a trace in the directory's time

dirVars == <<content, second, dirTime, s_file2modifytime, loaded, todo, hand, hidden>>

NoFile == "none"

ASSUME ConfFilesNamed == NoFile \notin ConfFiles

DirInit ==
    /\ content = [f \in ConfFiles |-> 1]
    /\ second = 1 /\ dirTime = 1
    /\ s_file2modifytime = [f \in ConfFiles |-> 0]
    /\ loaded = [f \in ConfFiles |-> 0]
    /\ todo = {} /\ hand = NoFile /\ hidden = {}

Seen(f, time) == s_file2modifytime[f] = time

-----------------------------------------------------------------------------
(* The outside.                                                            *)

Change(f, time) ==
    /\ content[f] < MaxVersion
    /\ content' = [content EXCEPT ![f] = @ + 1]
    /\ dirTime' = time
    /\ hidden' = IF Seen(f, time) THEN hidden \cup {f} ELSE hidden
    /\ UNCHANGED <<second, s_file2modifytime, loaded, todo, hand>>

\* A file is written in place.
WriteFile(f) == Change(f, dirTime)
\* A new file is renamed over it: the directory's time is the present second.
ReplaceFile(f) == Change(f, second)

NextSecond ==
    /\ second < MaxSecond
    /\ second' = second + 1
    /\ UNCHANGED <<content, dirTime, s_file2modifytime, loaded, todo, hand, hidden>>

-----------------------------------------------------------------------------
(* LoadFromConfDir.                                                        *)

BeginPass ==
    /\ todo = {} /\ hand = NoFile
    /\ todo' = ConfFiles
    /\ UNCHANGED <<content, second, dirTime, s_file2modifytime, loaded, hand, hidden>>

\* Mutant: one time for the whole directory.
StampAll(f) == [g \in ConfFiles |-> dirTime]
\* The time is stored before the file is read.
Stamp(f) == [s_file2modifytime EXCEPT ![f] = dirTime]

LookAt(f) ==
    /\ f \in todo /\ hand = NoFile
    /\ todo' = todo \ {f}
    /\ s_file2modifytime' = Stamp(f)
    /\ hand' = IF Seen(f, dirTime) THEN NoFile ELSE f
    /\ UNCHANGED <<content, second, dirTime, loaded, hidden>>

\* lstat fails: the file is left for a later pass.
SkipFile(f) ==
    /\ f \in todo /\ hand = NoFile
    /\ todo' = todo \ {f}
    /\ UNCHANGED <<content, second, dirTime, s_file2modifytime, loaded, hand, hidden>>

LoadFile ==
    /\ hand # NoFile
    /\ loaded' = [loaded EXCEPT ![hand] = content[hand]]
    /\ hidden' = hidden \ {hand}
    /\ hand' = NoFile
    /\ UNCHANGED <<content, second, dirTime, s_file2modifytime, todo>>

\* The file cannot be parsed: the exception is caught, the time stays stored.
LoadFileFails ==
    /\ hand # NoFile
    /\ hidden' = hidden \cup {hand}
    /\ hand' = NoFile
    /\ UNCHANGED <<content, second, dirTime, s_file2modifytime, loaded, todo>>

DirNext ==
    \/ \E f \in ConfFiles : WriteFile(f) \/ ReplaceFile(f) \/ LookAt(f) \/ SkipFile(f)
    \/ NextSecond \/ BeginPass \/ LoadFile \/ LoadFileFails

-----------------------------------------------------------------------------
\* A file whose present text is not applied is read again by the next pass,
\* unless its change left no trace: it was written in place, it was replaced
\* in the second in which the directory had been looked at, or it could not be
\* parsed.  A change that comes between the look at the time and the reading
\* of the file is not lost.
ChangeIsNotLost ==
    \A f \in ConfFiles :
        loaded[f] # content[f] => ~Seen(f, dirTime) \/ hand = f \/ f \in hidden
=============================================================================
