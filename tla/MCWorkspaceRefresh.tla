------------------------ MODULE MCWorkspaceRefresh ------------------------
EXTENDS WorkspaceRefresh
=============================================================================
