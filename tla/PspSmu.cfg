\* Levels below, at and above the largest one.
SPECIFICATION Spec
CONSTANTS
    MaxDpm = 2
    Levels = {1, 2, 3}
INVARIANTS
    TypeOK
    FailsOnlyFor
    UpMeansRunning
    UnpoweredOnlyIfLeft
    SmuAnswered
PROPERTY
    ImplementsControlPlane
