SPECIFICATION Spec
CONSTANTS
    Orders = {o1}
    Instances = {stable, canary}
    Serving = {stable}
    None = None
    MaxFaults <- OnlyDrainExpires
INVARIANT NothingDropped
