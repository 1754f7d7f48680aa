------------------------------- MODULE MCFiles -------------------------------
(***************************************************************************)
(* The components that keep files of their own, for TLC: known_hosts with  *)
(* the audit log, the script registry, the inventory, the schema of the    *)
(* database, and the blobs.                                                *)
(*                                                                         *)
(* They are checked side by side: a behaviour picks one part and leaves    *)
(* the variables of the others alone, so that the state spaces add up and  *)
(* do not multiply.                                                        *)
(***************************************************************************)
EXTENDS Onboarding, ScriptRegistry, Inventory, Migration, BlobStore, TLC

\* Three contents of script files: two share their first digit, one does not.
MCHash == {<<0, 0>>, <<0, 1>>, <<1, 0>>}

\* Scripts may swap their names and their files.
MCSymmetry == Permutations(Name) \cup Permutations(Path)

CONSTANTS b1, b2, b3

\* Two builds of one age, and a newer one.
MCVersion == [b \in Proc |-> IF b = b3 THEN 2 ELSE 1]

VARIABLE part

MCVars ==
  <<part, onboardingVars, registryVars, inventoryVars, migrationVars, blobVars>>

\* The script files start out in every way in their own part only.
MCInit ==
  /\ part \in {"onboarding", "registry", "inventory", "migration", "blob"}
  /\ OnboardingInit
  /\ RegistryInit /\ (part # "registry" => content = [f \in Path |-> <<0, 0>>])
  /\ InventoryInit
  /\ MigrationInit
  /\ BlobInit

OnboardingStep ==
  /\ part = "onboarding"
  /\ OnboardingNext
  /\ UNCHANGED <<part, registryVars, inventoryVars, migrationVars, blobVars>>

RegistryStep ==
  /\ part = "registry"
  /\ RegistryNext
  /\ UNCHANGED <<part, onboardingVars, inventoryVars, migrationVars, blobVars>>

InventoryStep ==
  /\ part = "inventory"
  /\ InventoryNext
  /\ UNCHANGED <<part, onboardingVars, registryVars, migrationVars, blobVars>>

MigrationStep ==
  /\ part = "migration"
  /\ MigrationNext
  /\ UNCHANGED <<part, onboardingVars, registryVars, inventoryVars, blobVars>>

BlobStep ==
  /\ part = "blob"
  /\ BlobNext
  /\ UNCHANGED <<part, onboardingVars, registryVars, inventoryVars, migrationVars>>

MCNext ==
  \/ OnboardingStep
  \/ RegistryStep
  \/ InventoryStep
  \/ MigrationStep
  \/ BlobStep

MCSpec == MCInit /\ [][MCNext]_MCVars

\* The types of the five parts.
FileTypes ==
  /\ OnboardingTypeOK
  /\ RegistryTypeOK
  /\ InventoryTypeOK
  /\ MigrationTypeOK
  /\ BlobTypeOK
==============================================================================
