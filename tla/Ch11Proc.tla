------------------------------- MODULE Ch11Proc -------------------------------
(***************************************************************************)
(* lab12/ch11, ch11_202111360.c: /proc/ch11_proc_dir/proc_info keeps the   *)
(* last string written and shows it with its number of spaces.  Nothing    *)
(* locks read_str: proc_info_write copies into it byte by byte while       *)
(* proc_info_show scans it, twice.                                         *)
(*                                                                         *)
(* A copy_from_user that faults has copied a prefix and cleared the rest.  *)
(* proc_remove waits for the calls in progress.                            *)
(***************************************************************************)
EXTENDS Integers, Sequences, FiniteSets

CONSTANTS
    Proc,      \* processes using the file
    BUF_SIZE,
    Input      \* what is written: sequences of characters

NUL == "nul"
SPACE == "space"
NEWLINE == "newline"
Unknown == <<NUL>>   \* no string

VARIABLES
    loaded,
    read_str,  \* the array, indexed from 0
    pc,        \* where a process is
    ubuf,      \* per process: the string it writes
    i,         \* per process: index of the copy or of the scan
    count,     \* per process: spaces counted
    out,       \* per process: characters printed
    alone,     \* history, per process: no other write was active during its call
    expect     \* history: what a reader should see, where that is defined

procVars == <<pc, ubuf, i, count, out>>
vars == <<loaded, read_str, procVars, alone, expect>>

Blank == [k \in 0 .. BUF_SIZE |-> NUL]

Init ==
    /\ loaded = FALSE /\ read_str = Blank
    /\ pc = [p \in Proc |-> "user"]
    /\ ubuf = [p \in Proc |-> <<>>]
    /\ i = [p \in Proc |-> 0] /\ count = [p \in Proc |-> 0]
    /\ out = [p \in Proc |-> <<>>]
    /\ alone = [p \in Proc |-> TRUE] /\ expect = <<>>

Goto(p, there) == pc' = [pc EXCEPT ![p] = there]
Writing == {p \in Proc : pc[p] \in {"copy", "trim"}}

\* simple_proc_init: without the directory or the file there is nothing to use.
Insmod ==
    /\ ~loaded
    /\ loaded' = TRUE
    /\ read_str' = Blank /\ expect' = <<>>
    /\ UNCHANGED <<procVars, alone>>

Rmmod ==
    /\ loaded /\ \A p \in Proc : pc[p] = "user"
    /\ loaded' = FALSE
    /\ UNCHANGED <<read_str, procVars, alone, expect>>

-----------------------------------------------------------------------------
(* proc_info_write. *)

\* A seeded fault: the length is capped one too high.
Mut_Capped(n) == IF n > BUF_SIZE THEN BUF_SIZE + 1 ELSE n
Capped(n) == IF n > BUF_SIZE THEN BUF_SIZE ELSE n

\* len, and the call of copy_from_user.
Write(p) ==
    /\ loaded /\ pc[p] = "user"
    /\ \E s \in Input : ubuf' = [ubuf EXCEPT ![p] = SubSeq(s, 1, Capped(Len(s)))]
    /\ i' = [i EXCEPT ![p] = 0]
    /\ alone' = [q \in Proc |-> IF q = p THEN Writing = {} ELSE pc[q] = "user" /\ alone[q]]
    /\ Goto(p, "copy")
    /\ UNCHANGED <<loaded, read_str, count, out, expect>>

\* The call returns, having written s unless another was at it too.
WriteReturns(p, s) ==
    /\ expect' = (IF alone[p] THEN s ELSE Unknown)
    /\ ubuf' = [ubuf EXCEPT ![p] = <<>>] /\ i' = [i EXCEPT ![p] = 0]
    /\ alone' = [alone EXCEPT ![p] = TRUE]
    /\ Goto(p, "user")

CopyByte(p) ==
    /\ pc[p] = "copy" /\ i[p] < Len(ubuf[p])
    /\ read_str' = [read_str EXCEPT ![i[p]] = ubuf[p][i[p] + 1]]
    /\ i' = [i EXCEPT ![p] = @ + 1]
    /\ UNCHANGED <<loaded, pc, ubuf, count, out, alone, expect>>

\* -EFAULT: the string stays cut off where the copy stopped.
CopyFaults(p) ==
    /\ pc[p] = "copy" /\ i[p] < Len(ubuf[p])
    /\ read_str' = [k \in DOMAIN read_str |->
                      IF k \in i[p] .. Len(ubuf[p]) - 1 THEN NUL ELSE read_str[k]]
    /\ WriteReturns(p, SubSeq(ubuf[p], 1, i[p]))
    /\ UNCHANGED <<loaded, count, out>>

Terminate(p) ==
    /\ pc[p] = "copy" /\ i[p] = Len(ubuf[p])
    /\ read_str' = [read_str EXCEPT ![i[p]] = NUL]
    /\ Goto(p, "trim")
    /\ UNCHANGED <<loaded, ubuf, i, count, out, alone, expect>>

Trimmed(s) ==
    IF s # <<>> /\ s[Len(s)] = NEWLINE THEN SubSeq(s, 1, Len(s) - 1) ELSE s

\* A seeded fault: the byte after the last one is looked at.
Mut_LastByte(len) == len
LastByte(len) == len - 1

TrimNewline(p) ==
    /\ pc[p] = "trim"
    /\ read_str' = (IF i[p] > 0 /\ read_str[LastByte(i[p])] = NEWLINE
                    THEN [read_str EXCEPT ![LastByte(i[p])] = NUL] ELSE read_str)
    /\ WriteReturns(p, Trimmed(ubuf[p]))
    /\ UNCHANGED <<loaded, count, out>>

-----------------------------------------------------------------------------
(* proc_info_show. *)

Show(p) ==
    /\ loaded /\ pc[p] = "user"
    /\ i' = [i EXCEPT ![p] = 0] /\ count' = [count EXCEPT ![p] = 0]
    /\ alone' = [alone EXCEPT ![p] = Writing = {}]
    /\ Goto(p, "scan")
    /\ UNCHANGED <<loaded, read_str, ubuf, out, expect>>

\* The counting loop; at the terminator seq_printf starts over.
Scan(p) ==
    /\ pc[p] = "scan" /\ i[p] \in DOMAIN read_str
    /\ IF read_str[i[p]] = NUL
       THEN Goto(p, "print") /\ i' = [i EXCEPT ![p] = 0] /\ UNCHANGED count
       ELSE /\ i' = [i EXCEPT ![p] = @ + 1]
            /\ count' = [count EXCEPT ![p] = IF read_str[i[p]] = SPACE THEN @ + 1 ELSE @]
            /\ UNCHANGED pc
    /\ UNCHANGED <<loaded, read_str, ubuf, out, alone, expect>>

\* seq_printf of %s.
PrintStr(p) ==
    /\ pc[p] = "print" /\ i[p] \in DOMAIN read_str
    /\ IF read_str[i[p]] = NUL
       THEN Goto(p, "shown") /\ UNCHANGED <<i, out>>
       ELSE /\ out' = [out EXCEPT ![p] = Append(@, read_str[i[p]])]
            /\ i' = [i EXCEPT ![p] = @ + 1]
            /\ UNCHANGED pc
    /\ UNCHANGED <<loaded, read_str, ubuf, count, alone, expect>>

ShowReturns(p) ==
    /\ pc[p] = "shown"
    /\ i' = [i EXCEPT ![p] = 0] /\ count' = [count EXCEPT ![p] = 0]
    /\ out' = [out EXCEPT ![p] = <<>>]
    /\ alone' = [alone EXCEPT ![p] = TRUE]
    /\ Goto(p, "user")
    /\ UNCHANGED <<loaded, read_str, ubuf, expect>>

-----------------------------------------------------------------------------
Next ==
    \/ Insmod \/ Rmmod
    \/ \E p \in Proc :
          \/ Write(p) \/ CopyByte(p) \/ CopyFaults(p) \/ Terminate(p) \/ TrimNewline(p)
          \/ Show(p) \/ Scan(p) \/ PrintStr(p) \/ ShowReturns(p)

Spec == Init /\ [][Next]_vars

-----------------------------------------------------------------------------
(* Properties. *)

\* However writers and readers of proc_info interleave, and wherever a copy
\* faults, no scan of read_str and no store into it leaves the array.
ScanStaysInside == \A p \in Proc : pc[p] \in {"scan", "print", "trim"} => i[p] <= BUF_SIZE

\* A show that no write disturbed prints the string of the last write that was
\* alone, cut to BUF_SIZE characters and without its final newline, or cut off
\* where its copy faulted, and counts the spaces of exactly that string.
ShowsWhatWasWritten ==
    \A p \in Proc : pc[p] = "shown" /\ alone[p] /\ expect # Unknown =>
        /\ out[p] = expect
        /\ count[p] = Cardinality({k \in DOMAIN expect : expect[k] = SPACE})
=============================================================================
