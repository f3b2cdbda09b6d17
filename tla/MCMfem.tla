------------------------------- MODULE MCMfem -------------------------------
EXTENDS MfemTribol

S(method, model, order, location) == [method |-> method, model |-> model, order |-> order, location |-> location]
MCSchemes == {S("COMMON_PLANE", "FRICTIONLESS", 2, "QuadraturePoint"),
              S("COMMON_PLANE", "VISCOUS_TANGENTIAL", 1, "QuadraturePoint"),
              S("SINGLE_MORTAR", "FRICTIONLESS", 1, "QuadraturePoint"),
              S("SINGLE_MORTAR", "FRICTIONLESS", 2, "QuadraturePoint"),
              S("ENERGY_MORTAR", "FRICTIONLESS", 1, "QuadraturePoint"),
              S("ENERGY_MORTAR", "FRICTIONLESS", 2, "Nodal")}
=============================================================================
