-------------------------------- MODULE MCTool --------------------------------
(***************************************************************************)
(* Small files for Tool: plain ones around the size of the buffer, and the *)
(* command lines that a user may try on them one after the other.          *)
(***************************************************************************)
EXTENDS Tool

CONSTANT SizeMax

MCFiles == {"plain", "message", "result", "absent", "directory"}
MCUnwritable == {"directory"}

There(cells) == [there |-> TRUE, cells |-> cells]
Nothing      == [there |-> FALSE, cells |-> <<>>]
MCDisks == {[f \in MCFiles |-> IF f = "plain" THEN There([i \in 1..n |-> Octet(i)])
                               ELSE Nothing] : n \in 0..SizeMax}

Job(action, input, output, pwd) ==
    [action |-> action, input |-> input, output |-> output, pwd |-> pwd]
MCJobs ==
    {Job("encrypt", "plain", "message", pwd) : pwd \in {"key", "missing"}}
    \cup {Job("decrypt", "message", "result", pwd) : pwd \in {"key", "other", "missing"}}
    \cup {Job(action, "plain", "plain", "key") : action \in {"encrypt", "decrypt"}}
    \cup {Job("encrypt", "absent", "message", "key"), Job("encrypt", "plain", "directory", "key")}
    \cup {Job(action, "plain", "message", "key") : action \in {"help", "unparsable", "incomplete", "none"}}
    \cup {Job("decrypt", "plain", "result", "key")}
===============================================================================
