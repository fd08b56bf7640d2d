---------------------------- MODULE FetchReplay ----------------------------
(***************************************************************************)
(* What an offline run can say after an online one has filled the cache    *)
(* (decision D-09). Fetch with one history variable: the calls that had    *)
(* returned when each call started.                                        *)
(***************************************************************************)
EXTENDS Fetch

VARIABLE before

rvars == <<vars, before>>

ReplayInit == Init /\ before = [k \in Call |-> {}]

ReplayStart(k) ==
    /\ Start(k)
    /\ before' = [before EXCEPT ![k] = {j \in Call : pc[j] = "returned"}]

ReplayNext ==
    \/ \E k \in Call : ReplayStart(k)
    \/ /\ \E k \in Call : Progress(k) \/ Crash(k)
       /\ UNCHANGED before
    \/ /\ \E c \in Coord : Expire(c)
       /\ UNCHANGED before

ReplaySpec == ReplayInit /\ [][ReplayNext]_rvars

\* The offline calls that ran after an online call by the same kind of client.
Replays(j, k) ==
    /\ j \notin Offline
    /\ k \in Offline
    /\ j \in before[k]
    /\ pc[k] = "returned"
    /\ j \in Tolerant <=> k \in Tolerant

\* The cache directory is this online call's alone, and no write to it fails.
Alone(j) == Faulty = {} /\ Call \ Offline = {j}

\* D-09, for what was answered: with the cache directory to itself, an online call
\* leaves every document it answered from where a later offline call finds it,
\* however old it is by then.
AnsweredReplays ==
    \A j, k \in Call, c \in Coord :
        Alone(j) /\ Replays(j, k) /\ out[j][c] = c => out[k][c] = c

-----------------------------------------------------------------------------
\* An online call that is alone keeps its promise to later runs as it goes: the file
\* it has open is as it left it, and every other answer is in its file.
Keeps(j) ==
    /\ pc[j] = "write" => cache[Key(at[j])] = Torn
    /\ \A c \in Coord :
          out[j][c] = c /\ writing[j] # c => GetRaw(cache[Key(c)]) /\ cache[Key(c)].parses

\* An offline call that started after it has found what it has passed.
Finds(j, k) == \A c \in Coord : c < at[k] /\ out[j][c] = c => out[k][c] = c

\* The inductive invariant of the replay.
ReplayInv ==
    /\ IInv
    /\ before \in [Call -> SUBSET Call]
    /\ \A k \in Call : pc[k] = "idle" => before[k] = {}
    /\ \A k \in Call, j \in Call : j \in before[k] => pc[j] = "returned"
    /\ \A k \in Offline : pc[k] = "returned" => at[k] > N
    /\ \A j \in Call : Alone(j) =>
          Keeps(j) /\ \A k \in Offline : j \in before[k] => Finds(j, k)

=============================================================================
