--------------------------- MODULE MCCommandLine ---------------------------
(* A payload of two files, and another invocation that exports.            *)
EXTENDS CommandLine

CONSTANTS skill, policy, v1, v2

Files == <<skill, policy>>

\* Not installed, whole, upgraded, and with a file missing.
Installations == {<<Absent, {}>>, <<v1, {skill, policy}>>, <<v2, {skill, policy}>>,
                  <<v2, {skill}>>}
============================================================================
