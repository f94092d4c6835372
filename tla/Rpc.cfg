SPECIFICATION Spec
CONSTANTS
    Caller = {a}
    Nobody = Nobody
PROPERTY
    CallersDontHang
