SPECIFICATION Spec
CONSTANTS
    Setups <- MCSetups
INVARIANTS OwnExperiences StatusFitsPayload
