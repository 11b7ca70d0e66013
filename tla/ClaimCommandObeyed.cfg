CONSTANT Switches = {2}
SPECIFICATION Spec
PROPERTIES CommandObeyed
