------------------------------ MODULE MCSpawn ------------------------------
(* Spawn with two children and the lists of up to two actions. *)
EXTENDS Spawn

On(kind, n) == [kind |-> kind, fdno |-> n]

\* One action, or two: standard input from a pipe or a file, standard output
\* and standard error to a pipe, a capture or a file.
MCJobs ==
  LET ins == {On("read_pipe", 0), On("file", 0)}
      outs == {On("write_pipe", 1), On("capture", 1), On("file", 1)}
      errs == {On("capture", 2)}
  IN {<<a>> : a \in ins \cup outs} \cup (ins \X outs) \cup (outs \X errs)

\* A descriptor that is none of the three standard ones.
MCJobsNumber == {<<On("write_pipe", 3)>>}

MCJobsCapture == {<<On("capture", 1)>>}
=============================================================================
