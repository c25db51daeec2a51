---- MODULE MCStorageApi ----
(* Small instances of StorageApi. *)
EXTENDS StorageApi

MCSharedFile == [s \in Shares |-> CHOOSE x \in Files : TRUE]

AtRoot == [x \in Files |-> None]
InFolder == [x \in Files |-> CHOOSE f \in Folders : TRUE]

\* A new account; one with a shared file in a folder; one with both in the trash,
\* the file trashed by itself or with the folder.
MCStart ==
    {[state |-> [r \in Things |-> "none"], home |-> AtRoot],
     [state |-> [r \in Things |-> "listed"], home |-> InFolder],
     [state |-> [r \in Things |-> IF r \in Shares THEN "listed" ELSE "binned"],
      home |-> AtRoot],
     [state |-> [r \in Things |-> IF r \in Shares THEN "listed" ELSE "binned"],
      home |-> InFolder]}
====
