------------------------------ MODULE MCFiles ------------------------------
(***************************************************************************)
(* What LIPAS keeps in the files of its home directory: the directory as a *)
(* whole, opened, backed up and restored (WorkspaceStorage), its           *)
(* workspace.db, migrated, rolled back and replaced (WorkspaceMigration),   *)
(* the extension registry with its lock file (ExtensionRegistry), and the   *)
(* attachments beside their rows (Attachments).  A behaviour is about the   *)
(* one that is `checked`.                                                  *)
(***************************************************************************)
EXTENDS WorkspaceStorage, WorkspaceMigration, ExtensionRegistry, Attachments, TLC

CONSTANTS
  p1, p2, NoProcess,   \* processes on one home directory
  f, g, Nowhere        \* extensions, attachments

VARIABLE checked  \* the component a behaviour is about

\* Stops and exceptions of a home directory together.
MaxStops == 2

\* Two versions of an extension, the second with two contents, one of another
\* signer, and a manifest that is not signed.
SomeRecords ==
  {[version |-> 1, artifact |-> "A", signer |-> "s", signature |-> "good"],
   [version |-> 2, artifact |-> "A", signer |-> "s", signature |-> "good"],
   [version |-> 2, artifact |-> "B", signer |-> "t", signature |-> "good"],
   [version |-> 1, artifact |-> "A", signer |-> NoProcess, signature |-> "none"]}

\* A host that takes what it is given, and one that requires signatures.
Trusting == [required |-> FALSE, trusted |-> {}, known |-> {"s"}]
TwoPolicies == {Trusting, [required |-> TRUE, trusted |-> {"s"}, known |-> {"s"}]}

ASSUME RegistryIsVersioned == NobodyIsNoHandle /\ VersionsAreNumbers
ASSUME RowsAreRows == NoRowIsNone /\ NoWriterIsNone

InitFiles ==
  /\ checked \in {"home", "layouts", "registry", "uploads"}
  /\ Init /\ (checked # "home" => place = Empty /\ ~bundleManifest)
  /\ LayoutInit /\ RegistryInit /\ UploadsInit
  /\ checked # "layouts" => legacy
  /\ checked # "registry" => policy = [h \in Handles |-> Trusting]

NextFiles ==
  /\ UNCHANGED checked
  /\ \/ checked = "home" /\ Next /\ crashes' + errors' <= MaxStops
        /\ UNCHANGED <<layoutVars, registryVars, uploadsVars>>
     \/ checked = "layouts" /\ LayoutNext
        /\ UNCHANGED <<vars, registryVars, uploadsVars>>
     \/ checked = "registry" /\ RegistryNext
        /\ UNCHANGED <<vars, layoutVars, uploadsVars>>
     \/ checked = "uploads" /\ UploadsNext
        /\ UNCHANGED <<vars, layoutVars, registryVars>>

SpecFiles ==
  /\ InitFiles
  /\ [][NextFiles]_<<checked, vars, layoutVars, registryVars, uploadsVars>>

-----------------------------------------------------------------------------
Interchangeable == Permutations({p1, p2}) \cup Permutations({f, g})

==============================================================================
