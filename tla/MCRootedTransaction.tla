------------------------ MODULE MCRootedTransaction ------------------------
EXTENDS RootedTransaction

MCKind == <<"replace", "create", "delete">>
=============================================================================
