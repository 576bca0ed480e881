---- MODULE MCRequester ----
(***************************************************************************)
(* Two callers.  Each of two questions has its own situations: the lease   *)
(* with requests that are not split and fresh ids, the ids and the memory  *)
(* without a lease.                                                        *)
(***************************************************************************)
EXTENDS Requester

CONSTANTS a, b

Job(k, l) == [kind |-> [c \in Calls |-> IF c = a THEN k[1] ELSE l[1]],
              split |-> [c \in Calls |-> IF c = a THEN k[2] ELSE l[2]]]

At(job, l, n, live) ==
  [kind |-> job.kind, split |-> job.split, leased |-> l, seed |-> n, live |-> live]

One(k) == <<k, FALSE>>
Two(k) == <<k, TRUE>>

MCStarts ==
  {At(Job(One("response"), One("fnf")), TRUE, 0, {}),
   At(Job(Two("response"), One("push")), FALSE, 2, {2}),
   At(Job(Two("response"), Two("fnf")), FALSE, 2, {2}),
   At(Job(One("response"), One("response")), FALSE, 4, {4}),
   At(Job(Two("stream"), One("channel")), FALSE, 2, {2}),
   At(Job(Two("channel"), One("stream")), FALSE, 4, {4})}
====
