------------------------------ MODULE MCMri4Sim ------------------------------
EXTENDS Mri4Sim, TLC

\* Programs of three half-words: a loop over a load, a 32-bit instruction with
\* a hard-coded breakpoint behind it, a semihost call, two breakpoints in a
\* row, and one that runs off the end of the code.
Mixed ==
    {<<"load", "branch", "exit">>, <<"wide", "branch", "bkpt">>, <<"semihost", "store", "exchange">>,
     <<"bkpt", "bkpt", "svc">>, <<"undefined", "load", "unassigned">>}

Loops == {<<"load", "branch", "exit">>, <<"semihost", "wide", "branch">>, <<"bkpt", "nop", "branch">>}

Encodings == {<<"undefined", "branch", "exit">>, <<"unassigned", "branch", "exit">>,
              <<"wide", "unassigned", "branch">>}

Start == {0}
StartOrThird == {0, 4}
Second == {2}

\* The data half-word, a half-word of the code, and nothing.
EveryAccess == {<<8, 2>>, <<2, 2>>, <<6, 2>>}
DataOnly    == {<<8, 2>>}
DataOrCode  == {<<8, 2>>, <<2, 2>>}

\* The second half-word alone, the first two, and a kind that is none.
BothKinds == {<<2, 2>>, <<0, 4>>, <<2, 5>>}
OneKind   == {<<2, 2>>}

\* On the data, and on the code, where fetches and the monitor's reads trip it.
DataAndCode == {<<8, 2, "readWrite">>, <<8, 2, "write">>, <<0, 2, "read">>}
OneReader  == {<<8, 2, "read">>}

\* The request and the reply of a memory call matter to the step that makes it
\* only, so states that differ in them alone are the same.
View == <<banks, cells, entries, encountered, thread, remote, history>>
=============================================================================
