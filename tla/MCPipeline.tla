----------------------------- MODULE MCPipeline -----------------------------
(* Pipeline for TLC: every forwarding header on every request.              *)
EXTENDS Pipeline, TLC

Symmetry == Permutations(Users) \cup Permutations(Names) \cup Permutations(Slots)

Forwarded == {ipHeaders}

\* Of the status of an answer the properties see whether it is a redirect.
Told(q) ==
  IF q.pc = "answered"
  THEN <<q.answer.status \in {301, 307}, q.answer.headers, q.answer.by, q.answer.https>>
  ELSE q

Seen == <<vars, production, [r \in Reqs |-> Told(req[r])]>>
=============================================================================
