----------------------------- MODULE GridManager -----------------------------
(***************************************************************************)
(* The factory of limit-grid vaults: anybody has a vault of their own      *)
(* instantiated from the administrator's template, and the manager keeps   *)
(* the register of who owns which.                                         *)
(*                                                                         *)
(* A creation is one transaction: the instantiation, which may fail, and   *)
(* the reply that registers the new address; PENDING_VAULTS is empty again *)
(* when it ends.                                                           *)
(***************************************************************************)
EXTENDS GridVault, Sequences

CONSTANTS
    InitialAdmin, InitialTemplates,   \* what the manager is instantiated with
    Keepers,       \* keepers a template or a vault may name
    VaultCodes,    \* wasm code ids of the vault
    FirstOwner,    \* bound: who creates the first vault
    MaxVaults      \* bound: vaults created

VARIABLES
    manager,        \* CONFIG: admin, pending_admin, template
    next_vault_id,
    vaults,         \* VAULTS: id -> owner and address
    owner_vaults,   \* OWNER_VAULTS: owner and id -> address
    instances       \* the chain's vault contracts; the address is the index

registry == <<next_vault_id, vaults, owner_vaults, instances>>

\* The part of the configuration vaults are instantiated with.
Template == [keeper : Keepers, fees : BOOLEAN, vault_code_id : VaultCodes]

ASSUME ManagerAssumption ==
    InitialAdmin \in Admins /\ InitialTemplates \subseteq Template /\ FirstOwner \in Users

ManagerInit ==
    /\ manager \in {[admin |-> InitialAdmin, pending_admin |-> None, template |-> t] :
                       t \in InitialTemplates}
    /\ next_vault_id = 1 /\ vaults = << >> /\ owner_vaults = << >> /\ instances = << >>

\* Faulty variant (see README, "Mutants"): the id is handed out again.
same_id(id) == id

following_id(id) == id + 1

\* One more entry of a storage map.
saved(map, key, value) ==
    [k \in DOMAIN map \cup {key} |-> IF k = key THEN value ELSE map[k]]

\* The first vault is the one whose life is followed (`config').
execute_create_vault(creator) ==
    LET address  == Len(instances) + 1
        instance == instantiated(creator, manager.admin, manager.template)
    IN  /\ address <= MaxVaults
        /\ address = 1 => creator = FirstOwner
        /\ instances' = Append(instances, instance)
        /\ next_vault_id' = following_id(next_vault_id)
        /\ vaults' = saved(vaults, next_vault_id, [owner |-> creator, address |-> address])
        /\ owner_vaults' = saved(owner_vaults, <<creator, next_vault_id>>, address)
        /\ config' = IF address = 1 THEN instance ELSE config
        /\ UNCHANGED manager

\* Registry and collector come and go together, and are never taken back.
execute_update_config(keeper, code, with_fees) ==
    /\ code # 0
    /\ manager' = [manager EXCEPT !.template =
                     [keeper |-> keeper, vault_code_id |-> code, fees |-> @.fees \/ with_fees]]
    /\ UNCHANGED <<config, registry>>

manager_transfer_admin(admin) ==
    /\ manager' = [manager EXCEPT !.pending_admin = admin]
    /\ UNCHANGED <<config, registry>>

manager_accept_admin ==
    /\ manager.pending_admin # None
    /\ manager' = [manager EXCEPT !.admin = manager.pending_admin, !.pending_admin = None]
    /\ UNCHANGED <<config, registry>>

-----------------------------------------------------------------------------

\* Every vault contract is registered once, under the next free id, with the
\* account that asked for it, in both of the manager's maps.
RegistryConsistent ==
    /\ DOMAIN vaults = 1..(next_vault_id - 1)
    /\ DOMAIN owner_vaults = {<<vaults[id].owner, id>> : id \in DOMAIN vaults}
    /\ \A id \in DOMAIN vaults :
          /\ vaults[id].address \in DOMAIN instances
          /\ instances[vaults[id].address].owner = vaults[id].owner
          /\ owner_vaults[<<vaults[id].owner, id>>] = vaults[id].address
    /\ \A a \in DOMAIN instances : \E id \in DOMAIN vaults : vaults[id].address = a
=============================================================================
