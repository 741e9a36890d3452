------------------------------ MODULE PathMatch ------------------------------
(***************************************************************************)
(* The string matchers of enforcer.bpf.c.  They run on fixed buffers of    *)
(* MAX_PATH_LEN and MAX_PATTERN_LEN bytes with a length beside them, and   *)
(* mask every index so that the verifier accepts the loads.  A mask is the *)
(* remainder modulo the buffer's size: a match that needed an index past   *)
(* the end would silently compare the wrong byte.                          *)
(*                                                                         *)
(* A path is a sequence of characters; HasSuffix, pathStartsWith and       *)
(* IsBasenameOf say what the matchers are meant to decide of whole paths.  *)
(***************************************************************************)
EXTENDS Integers, Sequences

CONSTANTS
    MAX_PATH_LEN,      \* 256: size of the path buffers
    MAX_PATTERN_LEN    \* 64: size of a rule's pattern

ASSUME LengthAssumption ==
    /\ MAX_PATH_LEN \in Nat /\ MAX_PATTERN_LEN \in Nat
    /\ 2 <= MAX_PATTERN_LEN /\ MAX_PATTERN_LEN <= MAX_PATH_LEN

NUL == "NUL"
Slash == "/"

\* A path in a zeroed buffer of the given size.
Fill(p, size) == [i \in 0 .. size - 1 |-> IF i < Len(p) THEN p[i + 1] ELSE NUL]

-----------------------------------------------------------------------------
(* The kernel's helpers: the number of bytes with the trailing NUL, and the *)
(* buffer.  d_path fails on what does not fit, the string copy truncates.   *)

d_path(p) ==
    IF Len(p) < MAX_PATH_LEN
    THEN [n |-> Len(p) + 1, buf |-> Fill(p, MAX_PATH_LEN)]
    ELSE [n |-> -1, buf |-> Fill(<<>>, MAX_PATH_LEN)]

Truncated(p) == IF Len(p) < MAX_PATH_LEN THEN p ELSE SubSeq(p, 1, MAX_PATH_LEN - 1)

probe_read_str(p) == d_path(Truncated(p))

-----------------------------------------------------------------------------
(* enforcer.bpf.c                                                           *)

path_ends_with(path, path_len, pat, pat_len) ==
    /\ pat_len # 0 /\ pat_len <= MAX_PATTERN_LEN
    /\ path_len < MAX_PATH_LEN /\ path_len >= pat_len
    /\ \A i \in 0 .. pat_len - 1 :
          path[(path_len - pat_len + i) % MAX_PATH_LEN] = pat[i % MAX_PATTERN_LEN]

path_is_basename(path, path_len, pat, pat_len) ==
    /\ pat_len >= 2 /\ pat[0] = Slash
    /\ path_len + 1 = pat_len
    /\ path_len < MAX_PATH_LEN /\ path_len <= MAX_PATTERN_LEN
    /\ \A i \in 0 .. path_len - 1 :
          i < MAX_PATTERN_LEN => path[i % MAX_PATH_LEN] = pat[(i + 1) % MAX_PATTERN_LEN]

\* path_starts_with_64 and _256: the same code with the size of the pattern's buffer.
path_starts_with(path, path_len, pat, pat_len, size) ==
    /\ pat_len # 0 /\ pat_len <= size
    /\ path_len < MAX_PATH_LEN /\ path_len >= pat_len
    /\ \A i \in 0 .. pat_len - 1 : path[i % MAX_PATH_LEN] = pat[i % size]
    /\ path_len = pat_len \/ path[pat_len % MAX_PATH_LEN] = Slash

-----------------------------------------------------------------------------
(* What they are meant to decide.                                           *)

HasSuffix(p, s) ==
    /\ Len(s) > 0 /\ Len(s) <= Len(p)
    /\ \A i \in 1 .. Len(s) : p[Len(p) - Len(s) + i] = s[i]

\* pathStartsWith of workspace.go: p is dir or lies below it.
pathStartsWith(p, dir) ==
    /\ Len(dir) > 0 /\ Len(dir) <= Len(p)
    /\ \A i \in 1 .. Len(dir) : p[i] = dir[i]
    /\ Len(p) = Len(dir) \/ p[Len(dir) + 1] = Slash

\* The bare command name p is the rule "/p".
IsBasenameOf(p, rule) ==
    /\ Len(rule) = Len(p) + 1 /\ Len(rule) >= 2
    /\ rule[1] = Slash
    /\ \A i \in 1 .. Len(p) : p[i] = rule[i + 1]
=============================================================================
