--------------------------- MODULE MCWorkspaceFS ---------------------------
EXTENDS WorkspaceFS

CONSTANT m1

Op(kind, path, to, expected, content) ==
  [kind |-> kind, path |-> path, to |-> to, expected |-> expected, content |-> content]

\* Every kind of operation: conflicting expectations on path 2, and moves that
\* cross.
ConflictingRequests ==
  {Op("write", 2, 2, {m1}, {}), Op("create", 2, 2, Unknown, {}),
   Op("read", 2, 2, Unknown, {}), Op("delete", 2, 2, {m1}, {}),
   Op("append", 2, 2, Unknown, {m1}), Op("move", 1, 2, Unknown, {}),
   Op("move", 2, 1, Unknown, {}), Op("archive", 2, 2, Unknown, {})}
=============================================================================
